---- MODULE Spec2Model ----
(***************************************************************************)
(* A model of the chess rules engine of src/src/lib.rs (struct Game).      *)
(*                                                                         *)
(* Representation.  A Square is the record [x, y] of the source (i8        *)
(* coordinates, possibly off the board).  A bitmap (u64, bit y*8+x) is the *)
(* set of the on-board squares whose bit is set: | is \cup, & is \cap,     *)
(* & ! is \, and "!= 0" is "# {}".  live_pieces (HashMap<Square, Piece>)   *)
(* is a function whose DOMAIN is the set of keys; previous_states          *)
(* (HashMap<BoardValue, u8>) likewise.  The Vec of captured piece types is *)
(* a sequence.  The whole Game object is one record, so that every method  *)
(* of the source is an operator from a Game to a Game (and a return value).*)
(* A method whose body is a sequence of steps is the composition of one    *)
(* operator per step, in the order of the source.                          *)
(***************************************************************************)
EXTENDS Integers, Sequences, FiniteSets, TLC

White == "White"
Black == "Black"

King == "King"
Queen == "Queen"
Bishop == "Bishop"
Knight == "Knight"
Rook == "Rook"
Pawn == "Pawn"

PieceType == {King, Queen, Bishop, Knight, Rook, Pawn}
PieceColor == {White, Black}

Ongoing == "Ongoing"
WhiteWon == "WhiteWon"
BlackWon == "BlackWon"
Draw == "Draw"

ChessResult == {Ongoing, WhiteWon, BlackWon, Draw}

\* impl Not for PieceColor
Not(c) == IF c = White THEN Black ELSE White

\* Square {x, y}
Sq(x, y) == [x |-> x, y |-> y]

\* the 64 squares of the board, Square::from(i) for i in 0..64
BoardSquares == {Sq(x, y) : x \in 0..7, y \in 0..7}

\* Square::to_bitmap: the one-bit mask of the square, 0 outside the board
to_bitmap(s) ==
  IF s.x < 0 \/ s.x >= 8 \/ s.y < 0 \/ s.y >= 8 THEN {} ELSE {s}

\* Square::moved: may leave the board
moved(s, dx, dy) == Sq(s.x + dx, s.y + dy)

\* Piece::get_direction
get_direction(piece) == IF piece.color = White THEN 1 ELSE -1

\* Square::from(&str) on a two-character notation, given as its two characters
FileOf(c) ==
  CASE c \in {"A", "a"} -> 0
    [] c \in {"B", "b"} -> 1
    [] c \in {"C", "c"} -> 2
    [] c \in {"D", "d"} -> 3
    [] c \in {"E", "e"} -> 4
    [] c \in {"F", "f"} -> 5
    [] c \in {"G", "g"} -> 6
    [] c \in {"H", "h"} -> 7
    [] OTHER -> -1

RankOf(c) ==
  CASE c = "1" -> 0
    [] c = "2" -> 1
    [] c = "3" -> 2
    [] c = "4" -> 3
    [] c = "5" -> 4
    [] c = "6" -> 5
    [] c = "7" -> 6
    [] c = "8" -> 7
    [] OTHER -> -1

SquareFromStr(f, r) == Sq(FileOf(f), RankOf(r))

(***************************************************************************)
(* bitmap_line: the loop of the source, one iteration per unfolding.       *)
(***************************************************************************)
RECURSIVE bitmap_line_loop(_, _, _, _, _, _)
bitmap_line_loop(square0, moves, dx, dy, own_color_bitmap, other_color_bitmap) ==
  LET square == moved(square0, dx, dy)
      new_moves == moves \cup (to_bitmap(square) \ own_color_bitmap)
  IN IF new_moves = moves THEN moves
     ELSE IF new_moves \cap other_color_bitmap # {} THEN new_moves
     ELSE bitmap_line_loop(square, new_moves, dx, dy, own_color_bitmap, other_color_bitmap)

\* as bitmap_line_turn, but the line goes on through a piece of the other colour
bitmap_line_turn_through(l, dx, dy, own_color_bitmap, other_color_bitmap) ==
  IF l.moves \cup (to_bitmap(moved(l.square, dx, dy)) \ own_color_bitmap) = l.moves
  THEN [op |-> "return", square |-> moved(l.square, dx, dy), moves |-> l.moves]
  ELSE [op |-> "loop", square |-> moved(l.square, dx, dy),
        moves |-> l.moves \cup (to_bitmap(moved(l.square, dx, dy)) \ own_color_bitmap)]

\* one turn of the loop of bitmap_line: l holds square and moves, and op says whether
\* the function has returned
bitmap_line_turn(l, dx, dy, own_color_bitmap, other_color_bitmap) ==
  LET square == moved(l.square, dx, dy)
      new_moves == l.moves \cup (to_bitmap(square) \ own_color_bitmap)
  IN IF new_moves = l.moves
     THEN [op |-> "return", square |-> square, moves |-> l.moves]
     ELSE IF new_moves \cap other_color_bitmap # {}
     THEN [op |-> "return", square |-> square, moves |-> new_moves]
     ELSE [op |-> "loop", square |-> square, moves |-> new_moves]

bitmap_line(start, dx, dy, own_color_bitmap, other_color_bitmap) ==
  bitmap_line_loop(start, {}, dx, dy, own_color_bitmap, other_color_bitmap)

(***************************************************************************)
(* Pseudo-legal moves.  g is the Game (self); only the pawn reads it.      *)
(***************************************************************************)
psuedo_legal_moves_king(piece, own_color_bitmap) ==
  LET moves == to_bitmap(moved(piece.pos, 1, 0)) \cup to_bitmap(moved(piece.pos, 1, 1))
        \cup to_bitmap(moved(piece.pos, 0, 1)) \cup to_bitmap(moved(piece.pos, -1, 1))
        \cup to_bitmap(moved(piece.pos, -1, 0)) \cup to_bitmap(moved(piece.pos, -1, -1))
        \cup to_bitmap(moved(piece.pos, 0, -1)) \cup to_bitmap(moved(piece.pos, 1, -1))
  IN moves \ own_color_bitmap

psuedo_legal_moves_queen(piece, own_color_bitmap, other_color_bitmap) ==
  bitmap_line(piece.pos, 1, 0, own_color_bitmap, other_color_bitmap)
    \cup bitmap_line(piece.pos, 1, 1, own_color_bitmap, other_color_bitmap)
    \cup bitmap_line(piece.pos, 0, 1, own_color_bitmap, other_color_bitmap)
    \cup bitmap_line(piece.pos, -1, 1, own_color_bitmap, other_color_bitmap)
    \cup bitmap_line(piece.pos, -1, 0, own_color_bitmap, other_color_bitmap)
    \cup bitmap_line(piece.pos, -1, -1, own_color_bitmap, other_color_bitmap)
    \cup bitmap_line(piece.pos, 0, -1, own_color_bitmap, other_color_bitmap)
    \cup bitmap_line(piece.pos, 1, -1, own_color_bitmap, other_color_bitmap)

psuedo_legal_moves_bishop(piece, own_color_bitmap, other_color_bitmap) ==
  bitmap_line(piece.pos, 1, 1, own_color_bitmap, other_color_bitmap)
    \cup bitmap_line(piece.pos, -1, 1, own_color_bitmap, other_color_bitmap)
    \cup bitmap_line(piece.pos, -1, -1, own_color_bitmap, other_color_bitmap)
    \cup bitmap_line(piece.pos, 1, -1, own_color_bitmap, other_color_bitmap)

psuedo_legal_moves_knight(piece, own_color_bitmap) ==
  LET moves == to_bitmap(moved(piece.pos, 2, 1)) \cup to_bitmap(moved(piece.pos, 1, 2))
        \cup to_bitmap(moved(piece.pos, -1, 2)) \cup to_bitmap(moved(piece.pos, -2, 1))
        \cup to_bitmap(moved(piece.pos, -2, -1)) \cup to_bitmap(moved(piece.pos, -1, -2))
        \cup to_bitmap(moved(piece.pos, 1, -2)) \cup to_bitmap(moved(piece.pos, 2, -1))
  IN moves \ own_color_bitmap

psuedo_legal_moves_rook(piece, own_color_bitmap, other_color_bitmap) ==
  bitmap_line(piece.pos, 1, 0, own_color_bitmap, other_color_bitmap)
    \cup bitmap_line(piece.pos, 0, 1, own_color_bitmap, other_color_bitmap)
    \cup bitmap_line(piece.pos, -1, 0, own_color_bitmap, other_color_bitmap)
    \cup bitmap_line(piece.pos, 0, -1, own_color_bitmap, other_color_bitmap)

\* as psuedo_legal_moves_pawn, but en passant does not ask that the pawn moved 2 steps
psuedo_legal_moves_pawn_any_step(g, piece, own_color_bitmap, other_color_bitmap) ==
  LET direction == get_direction(piece)
      all_bitmap == own_color_bitmap \cup other_color_bitmap
      one_step == to_bitmap(moved(piece.pos, 0, direction)) \ all_bitmap
      two_steps == IF ~piece.has_moved /\ one_step # {}
                   THEN to_bitmap(moved(piece.pos, 0, direction * 2)) \ all_bitmap
                   ELSE {}
      diagonal == (to_bitmap(moved(piece.pos, 1, direction))
                     \cup to_bitmap(moved(piece.pos, -1, direction)))
                   \cap other_color_bitmap
      en_passant ==
        IF g.last_moved_to \in DOMAIN g.live_pieces
        THEN LET last_moved_piece == g.live_pieces[g.last_moved_to]
             IN IF last_moved_piece.piece_type = Pawn
                   /\ (to_bitmap(moved(piece.pos, -1, 0)) \cup to_bitmap(moved(piece.pos, 1, 0)))
                        \cap to_bitmap(last_moved_piece.pos) # {}
                THEN to_bitmap(moved(g.last_moved_to, 0, direction))
                ELSE {}
        ELSE {}
  IN one_step \cup two_steps \cup diagonal \cup en_passant

psuedo_legal_moves_pawn(g, piece, own_color_bitmap, other_color_bitmap) ==
  LET direction == get_direction(piece)
      all_bitmap == own_color_bitmap \cup other_color_bitmap
      one_step == to_bitmap(moved(piece.pos, 0, direction)) \ all_bitmap
      two_steps == IF ~piece.has_moved /\ one_step # {}
                   THEN to_bitmap(moved(piece.pos, 0, direction * 2)) \ all_bitmap
                   ELSE {}
      diagonal == (to_bitmap(moved(piece.pos, 1, direction))
                     \cup to_bitmap(moved(piece.pos, -1, direction)))
                   \cap other_color_bitmap
      en_passant ==
        IF g.last_moved_to \in DOMAIN g.live_pieces
        THEN LET last_moved_piece == g.live_pieces[g.last_moved_to]
             IN IF last_moved_piece.piece_type = Pawn
                   /\ g.last_moved_to.y + direction * 2 = g.last_moved_from.y
                   /\ (to_bitmap(moved(piece.pos, -1, 0)) \cup to_bitmap(moved(piece.pos, 1, 0)))
                        \cap to_bitmap(last_moved_piece.pos) # {}
                THEN to_bitmap(moved(g.last_moved_to, 0, direction))
                ELSE {}
        ELSE {}
  IN one_step \cup two_steps \cup diagonal \cup en_passant

psuedo_legal_moves(g, piece, own_color_bitmap, other_color_bitmap) ==
  CASE piece.piece_type = King -> psuedo_legal_moves_king(piece, own_color_bitmap)
    [] piece.piece_type = Queen -> psuedo_legal_moves_queen(piece, own_color_bitmap, other_color_bitmap)
    [] piece.piece_type = Bishop -> psuedo_legal_moves_bishop(piece, own_color_bitmap, other_color_bitmap)
    [] piece.piece_type = Knight -> psuedo_legal_moves_knight(piece, own_color_bitmap)
    [] piece.piece_type = Rook -> psuedo_legal_moves_rook(piece, own_color_bitmap, other_color_bitmap)
    [] piece.piece_type = Pawn -> psuedo_legal_moves_pawn(g, piece, own_color_bitmap, other_color_bitmap)


(***************************************************************************)
(* HashMap helpers.                                                        *)
(***************************************************************************)
MapRemove(m, k) == [s \in DOMAIN m \ {k} |-> m[s]]

MapInsert(m, k, v) == [s \in DOMAIN m \cup {k} |-> IF s = k THEN v ELSE m[s]]

\* live_pieces.iter().find(king of the colour): whether there is one, and its
\* bitmap (the board holds at most one king of a colour)
has_king(live_pieces, color) ==
  \E k \in DOMAIN live_pieces :
     live_pieces[k].piece_type = King /\ live_pieces[k].color = color

king_bitmap_of(live_pieces, color) ==
  IF has_king(live_pieces, color)
  THEN to_bitmap(CHOOSE k \in DOMAIN live_pieces :
                    live_pieces[k].piece_type = King /\ live_pieces[k].color = color)
  ELSE {}

own_bitmap(g, color) == IF color = White THEN g.white_bitmap ELSE g.black_bitmap

other_bitmap(g, color) == IF color = White THEN g.black_bitmap ELSE g.white_bitmap

(***************************************************************************)
(* Game::legal_moves, in the order of the source: the castling moves that  *)
(* are added, the test of one move (the body of the loop over the bits of  *)
(* moves), the removal of a castle over a square in check.                 *)
(***************************************************************************)
castle_moves(g, piece, dx, rook_x, between_x) ==
  LET rook_square == Sq(rook_x, piece.pos.y)
  IN IF piece.piece_type = King /\ ~piece.has_moved /\ ~g.check
        /\ rook_square \in DOMAIN g.live_pieces
        /\ g.live_pieces[rook_square].piece_type = Rook
        /\ ~g.live_pieces[rook_square].has_moved
        /\ bitmap_line(piece.pos, dx, 0, own_bitmap(g, piece.color),
                       other_bitmap(g, piece.color))
             \cap to_bitmap(Sq(between_x, piece.pos.y)) # {}
     THEN to_bitmap(moved(piece.pos, 2 * dx, 0))
     ELSE {}

\* as puts_king_in_check, but with the king where it stood before the move
puts_king_in_check_static(g, piece, possible_move) ==
  LET own_color_bitmap == own_bitmap(g, piece.color)
      other_color_bitmap == other_bitmap(g, piece.color)
      possible_move_bitmap == to_bitmap(possible_move)
      new_own_color_bitmap ==
        (own_color_bitmap \ to_bitmap(piece.pos)) \cup possible_move_bitmap
      new_other_color_bitmap ==
        IF piece.piece_type = Pawn /\ piece.pos.x # possible_move.x
           /\ other_color_bitmap \cap possible_move_bitmap = {}
        THEN other_color_bitmap \ to_bitmap(moved(possible_move, 0, -get_direction(piece)))
        ELSE other_color_bitmap \ possible_move_bitmap
      own_king_bitmap == king_bitmap_of(g.live_pieces, piece.color)
  IN \E k \in DOMAIN g.live_pieces :
        /\ g.live_pieces[k].color # piece.color
        /\ to_bitmap(g.live_pieces[k].pos) \cap new_other_color_bitmap # {}
        /\ psuedo_legal_moves(g, g.live_pieces[k], new_other_color_bitmap,
                              new_own_color_bitmap) \cap own_king_bitmap # {}

puts_king_in_check(g, piece, possible_move) ==
  LET own_color_bitmap == own_bitmap(g, piece.color)
      other_color_bitmap == other_bitmap(g, piece.color)
      possible_move_bitmap == to_bitmap(possible_move)
      new_own_color_bitmap ==
        (own_color_bitmap \ to_bitmap(piece.pos)) \cup possible_move_bitmap
      new_other_color_bitmap ==
        IF piece.piece_type = Pawn /\ piece.pos.x # possible_move.x
           /\ other_color_bitmap \cap possible_move_bitmap = {}
        THEN other_color_bitmap \ to_bitmap(moved(possible_move, 0, -get_direction(piece)))
        ELSE other_color_bitmap \ possible_move_bitmap
      own_king_bitmap == IF piece.piece_type = King THEN possible_move_bitmap
                         ELSE king_bitmap_of(g.live_pieces, piece.color)
  IN \E k \in DOMAIN g.live_pieces :
        /\ g.live_pieces[k].color # piece.color
        /\ to_bitmap(g.live_pieces[k].pos) \cap new_other_color_bitmap # {}
        /\ psuedo_legal_moves(g, g.live_pieces[k], new_other_color_bitmap,
                              new_own_color_bitmap) \cap own_king_bitmap # {}

remove_castle(piece, moves, dx) ==
  IF piece.piece_type = King /\ to_bitmap(moved(piece.pos, dx, 0)) \cap moves = {}
  THEN moves \ to_bitmap(moved(piece.pos, 2 * dx, 0))
  ELSE moves

\* as remove_checks, but no move is removed for the king's sake
remove_checks_never(g, piece, moves) ==
  remove_castle(piece, remove_castle(piece, moves, -1), 1)

remove_checks(g, piece, moves) ==
  IF ~has_king(g.live_pieces, piece.color)
  THEN moves \* no king: all psuedo legal moves are legal
  ELSE remove_castle(piece,
         remove_castle(piece, {m \in moves : ~puts_king_in_check(g, piece, m)}, -1), 1)

legal_moves(g, piece) ==
  remove_checks(g, piece,
    psuedo_legal_moves(g, piece, own_bitmap(g, piece.color), other_bitmap(g, piece.color))
      \cup castle_moves(g, piece, -1, 0, 1)
      \cup castle_moves(g, piece, 1, 7, 6))

\* Game::get_moves_bitmap
get_moves_bitmap(g, from) ==
  IF from \in DOMAIN g.live_pieces
  THEN IF g.live_pieces[from].color = g.turn
       THEN legal_moves(g, g.live_pieces[from])
       ELSE {}
  ELSE {}

(***************************************************************************)
(* BoardValue::from(&Game): the key of the repetition history.  data (u8)  *)
(* is the set of its set bits: bit 0 en passant, bit 1 long castle, bit 2  *)
(* short castle, +4 for Black.                                             *)
(***************************************************************************)
BoardValue_from(g) ==
  LET live_pieces == g.live_pieces
      keys == DOMAIN live_pieces
      en_passant_x ==
        IF g.last_moved_to \in keys
        THEN LET pawn == live_pieces[g.last_moved_to]
             IN IF pawn.piece_type = Pawn
                   /\ g.last_moved_from.y + get_direction(pawn) * 2 = g.last_moved_to.y
                THEN g.last_moved_to.x
                ELSE -8
        ELSE -8
      color_bitshift(piece) == IF piece.color = White THEN 0 ELSE 4
      rook_gone(square) ==
        IF square \in keys
        THEN live_pieces[square].piece_type # Rook \/ live_pieces[square].has_moved
        ELSE TRUE
      data_of(square) ==
        LET piece == live_pieces[square]
        IN IF piece.piece_type = King /\ ~piece.has_moved
           THEN ({1, 2} \ (IF rook_gone(Sq(0, square.y)) THEN {1} ELSE {}))
                  \ (IF rook_gone(Sq(7, square.y)) THEN {2} ELSE {})
           ELSE IF piece.piece_type = Pawn
                   /\ piece.pos.y = (IF piece.color = White THEN 4 ELSE 3)
                   /\ (en_passant_x = piece.pos.x - 1 \/ en_passant_x = piece.pos.x + 1)
           THEN {0}
           ELSE {}
      of_type(t) == UNION {to_bitmap(k) : k \in {q \in keys : live_pieces[q].piece_type = t}}
      of_color(c) == UNION {to_bitmap(k) : k \in {q \in keys : live_pieces[q].color = c}}
  IN [white_bitmap |-> of_color(White),
      black_bitmap |-> of_color(Black),
      king_bitmap |-> of_type(King),
      queen_bitmap |-> of_type(Queen),
      bishop_bitmap |-> of_type(Bishop),
      knight_bitmap |-> of_type(Knight),
      rook_bitmap |-> of_type(Rook),
      pawn_bitmap |-> of_type(Pawn),
      data |-> UNION {{b + color_bitshift(live_pieces[k]) : b \in data_of(k)} : k \in keys}]

(***************************************************************************)
(* Game::new                                                               *)
(***************************************************************************)
BackRank == <<Rook, Knight, Bishop, Queen, King, Bishop, Knight, Rook>>

NewPieces ==
  [s \in {Sq(x, y) : x \in 0..7, y \in {0, 1, 6, 7}} |->
     [piece_type |-> IF s.y \in {1, 6} THEN Pawn ELSE BackRank[s.x + 1],
      color |-> IF s.y \in {0, 1} THEN White ELSE Black,
      pos |-> s,
      has_moved |-> FALSE]]

\* as New, but the first position is not put into previous_states
New_uncounted ==
  [live_pieces |-> NewPieces,
   fifty_move_rule |-> 0,
   previous_states |-> << >>,
   white_bitmap |-> {Sq(x, y) : x \in 0..7, y \in {0, 1}},
   black_bitmap |-> {Sq(x, y) : x \in 0..7, y \in {6, 7}},
   turn |-> White,
   result |-> Ongoing,
   last_moved_from |-> Sq(-1, -1),
   last_moved_to |-> Sq(-1, -1),
   capture |-> FALSE,
   check |-> FALSE,
   promotion |-> FALSE,
   white_captured_pieces |-> << >>,
   black_captured_pieces |-> << >>,
   fullmoves |-> 1]

New ==
  LET game == [live_pieces |-> NewPieces,
               fifty_move_rule |-> 0,
               previous_states |-> << >>,
               white_bitmap |-> {Sq(x, y) : x \in 0..7, y \in {0, 1}},
               black_bitmap |-> {Sq(x, y) : x \in 0..7, y \in {6, 7}},
               turn |-> White,
               result |-> Ongoing,
               last_moved_from |-> Sq(-1, -1),
               last_moved_to |-> Sq(-1, -1),
               capture |-> FALSE,
               check |-> FALSE,
               promotion |-> FALSE,
               white_captured_pieces |-> << >>,
               black_captured_pieces |-> << >>,
               fullmoves |-> 1]
  IN [game EXCEPT !.previous_states = MapInsert(@, BoardValue_from(game), 1)]

(***************************************************************************)
(* Game::capture                                                           *)
(***************************************************************************)
\* as capture, but the bitmaps are left as they were
capture_keeps_bitmaps(g, square) ==
  IF square \in DOMAIN g.live_pieces
  THEN [g EXCEPT !.live_pieces = MapRemove(@, square),
                 !.white_captured_pieces =
                    IF g.live_pieces[square].color = White
                    THEN Append(@, g.live_pieces[square].piece_type) ELSE @,
                 !.black_captured_pieces =
                    IF g.live_pieces[square].color = Black
                    THEN Append(@, g.live_pieces[square].piece_type) ELSE @,
                 !.previous_states = << >>]
  ELSE g

\* as capture, but the piece is not written to a list of captured pieces
capture_unlisted(g, square) ==
  [g EXCEPT !.live_pieces = MapRemove(@, square),
            !.previous_states = IF square \in DOMAIN g.live_pieces THEN << >> ELSE @,
            !.white_bitmap = @ \ to_bitmap(square),
            !.black_bitmap = @ \ to_bitmap(square)]

capture(g, square) ==
  LET removed ==
        IF square \in DOMAIN g.live_pieces
        THEN LET piece == g.live_pieces[square]
             IN [g EXCEPT !.live_pieces = MapRemove(@, square),
                          !.white_captured_pieces =
                             IF piece.color = White THEN Append(@, piece.piece_type) ELSE @,
                          !.black_captured_pieces =
                             IF piece.color = Black THEN Append(@, piece.piece_type) ELSE @,
                          !.previous_states = << >>]
        ELSE g
  IN [removed EXCEPT !.white_bitmap = @ \ to_bitmap(square),
                     !.black_bitmap = @ \ to_bitmap(square)]

(***************************************************************************)
(* Game::post_move: check flag, fifty-move rule, repetition, insufficient  *)
(* material, full-move counter and turn; then the end of the game.         *)
(***************************************************************************)
\* as in_check, but the king looked at is the one of the side that moved
in_check_mover(g) ==
  \E k \in DOMAIN g.live_pieces :
     /\ g.live_pieces[k].color = Not(g.turn)
     /\ psuedo_legal_moves(g, g.live_pieces[k], other_bitmap(g, g.turn),
                           own_bitmap(g, g.turn))
          \cap king_bitmap_of(g.live_pieces, g.turn) # {}

in_check(g) ==
  \E k \in DOMAIN g.live_pieces :
     /\ g.live_pieces[k].color = g.turn
     /\ psuedo_legal_moves(g, g.live_pieces[k], own_bitmap(g, g.turn),
                           other_bitmap(g, g.turn))
          \cap king_bitmap_of(g.live_pieces, Not(g.turn)) # {}

\* the counts of previous_states are u8: *val += 1 of a build without overflow checks
\* (a build with them stops the program at 255 + 1)
u8_MAX == 255

wrapping_add(val, n) == (val + n) % (u8_MAX + 1)

\* as insufficient_material, but only for the two kings alone
insufficient_material_kings(live_pieces) ==
  /\ Cardinality(DOMAIN live_pieces) <= 2
  /\ \A k \in DOMAIN live_pieces : live_pieces[k].piece_type \in {King, Bishop, Knight}

\* as insufficient_material, but with any number of pieces
insufficient_material_any(live_pieces) ==
  \A k \in DOMAIN live_pieces : live_pieces[k].piece_type \in {King, Bishop, Knight}

\* draw by insufficient material
insufficient_material(live_pieces) ==
  /\ Cardinality(DOMAIN live_pieces) <= 3
  /\ \A k \in DOMAIN live_pieces : live_pieces[k].piece_type \in {King, Bishop, Knight}

\* as turn_changed, but the fifty-move rule waits for one more half-move
turn_changed_late(g, board_value) ==
  LET seen == board_value \in DOMAIN g.previous_states
      count == IF seen THEN wrapping_add(g.previous_states[board_value], 1) ELSE 1
  IN [g EXCEPT
        !.check = in_check(g),
        !.result = IF insufficient_material(g.live_pieces) THEN Draw
                   ELSE IF seen /\ count >= 3 THEN Draw
                   ELSE IF g.fifty_move_rule > 100 THEN Draw
                   ELSE @,
        !.previous_states = MapInsert(@, board_value, count),
        !.fullmoves = IF g.turn = Black THEN @ + 1 ELSE @,
        !.turn = Not(g.turn)]

\* everything up to "change whos turn it"; board_value is BoardValue::from(self)
turn_changed(g, board_value) ==
  LET seen == board_value \in DOMAIN g.previous_states
      count == IF seen THEN wrapping_add(g.previous_states[board_value], 1) ELSE 1
  IN [g EXCEPT
        !.check = in_check(g),
        !.result = IF insufficient_material(g.live_pieces) THEN Draw
                   ELSE IF seen /\ count >= 3 THEN Draw
                   ELSE IF g.fifty_move_rule >= 100 THEN Draw
                   ELSE @,
        !.previous_states = MapInsert(@, board_value, count),
        !.fullmoves = IF g.turn = Black THEN @ + 1 ELSE @,
        !.turn = Not(g.turn)]

\* as game_finished, but a side that is not in check and has no legal moves plays on
game_finished_in_check(g) ==
  IF \E k \in DOMAIN g.live_pieces :
        g.live_pieces[k].color = g.turn /\ legal_moves(g, g.live_pieces[k]) # {}
  THEN g
  ELSE IF g.check
  THEN [g EXCEPT !.result = IF g.turn = White THEN BlackWon ELSE WhiteWon]
  ELSE g

\* the game is finished if there are no legal moves
game_finished(g) ==
  IF \E k \in DOMAIN g.live_pieces :
        g.live_pieces[k].color = g.turn /\ legal_moves(g, g.live_pieces[k]) # {}
  THEN g
  ELSE [g EXCEPT !.result =
          IF g.check
          THEN (IF g.turn = White THEN BlackWon ELSE WhiteWon)
          ELSE Draw]

\* as post_move, but a draw by the clock, by repetition or by material is looked for
\* after the end of the game, and stands
post_move_draw_last(g) ==
  IF turn_changed([g EXCEPT !.result = Ongoing], BoardValue_from(g)).result = Draw
  THEN [game_finished(turn_changed(g, BoardValue_from(g))) EXCEPT !.result = Draw]
  ELSE game_finished(turn_changed(g, BoardValue_from(g)))

post_move(g) == game_finished(turn_changed(g, BoardValue_from(g)))

(***************************************************************************)
(* Game::force_move, in the order of the source.  Each step takes the Game *)
(* the step before left.  Returns [ok, game]: Ok(()) or Err(_), and self.  *)
(***************************************************************************)
\* as take, but capture is left as the move before set it when nothing is taken
take_keeps_flag(g, to) ==
  IF (g.black_bitmap \cup g.white_bitmap) \cap to_bitmap(to) # {}
  THEN [capture(g, to) EXCEPT !.fifty_move_rule = 0, !.capture = TRUE]
  ELSE [g EXCEPT !.fifty_move_rule = @ + 1]

\* as take, but fifty_move_rule is not reset when a piece is taken
take_counts(g, to) ==
  IF (g.black_bitmap \cup g.white_bitmap) \cap to_bitmap(to) # {}
  THEN [capture(g, to) EXCEPT !.fifty_move_rule = @ + 1, !.capture = TRUE]
  ELSE [g EXCEPT !.fifty_move_rule = @ + 1, !.capture = FALSE]

\* increment fifty_move_rule; if there is other piece in pos, capture
take(g, to) ==
  IF (g.black_bitmap \cup g.white_bitmap) \cap to_bitmap(to) # {}
  THEN [capture(g, to) EXCEPT !.fifty_move_rule = 0, !.capture = TRUE]
  ELSE [g EXCEPT !.fifty_move_rule = @ + 1, !.capture = FALSE]

\* as en_passant, but capture is not set
en_passant_unflagged(g, piece, to) ==
  IF piece.piece_type = Pawn /\ piece.pos.x # to.x /\ ~g.capture
  THEN capture(g, moved(to, 0, -get_direction(piece)))
  ELSE g

\* check for en passant: a pawn that moved diagonally and did not capture
en_passant(g, piece, to) ==
  IF piece.piece_type = Pawn /\ piece.pos.x # to.x /\ ~g.capture
  THEN [capture(g, moved(to, 0, -get_direction(piece))) EXCEPT !.capture = TRUE]
  ELSE g

\* as pawn_moved, but the last rank of Black is that of White
pawn_moved_white(g, piece, to) ==
  IF piece.piece_type = Pawn
  THEN [g EXCEPT !.fifty_move_rule = 0,
                 !.promotion = IF to.y = 7 THEN TRUE ELSE @]
  ELSE g

\* reset fifty_move_rule if a pawn was moved; check for promotion
pawn_moved(g, piece, to) ==
  IF piece.piece_type = Pawn
  THEN [g EXCEPT !.fifty_move_rule = 0,
                 !.promotion = IF to.y = (IF piece.color = White THEN 7 ELSE 0)
                               THEN TRUE ELSE @]
  ELSE g

\* castle: the rook of that side goes next to the king; the bitmaps to add and remove
castle(g, piece, to) ==
  LET long == moved(piece.pos, -2, 0) = to
      short == ~long /\ moved(piece.pos, 2, 0) = to
      rook_from == IF long THEN Sq(0, piece.pos.y) ELSE Sq(7, piece.pos.y)
      rook_to == IF long THEN moved(to, 1, 0) ELSE moved(to, -1, 0)
  IN IF piece.piece_type = King /\ ~piece.has_moved /\ (long \/ short)
        /\ rook_from \in DOMAIN g.live_pieces
     THEN [game |-> [g EXCEPT !.live_pieces =
                       MapInsert(MapRemove(@, g.live_pieces[rook_from].pos), rook_to,
                                 [g.live_pieces[rook_from] EXCEPT !.has_moved = TRUE,
                                                                  !.pos = rook_to])],
           castle_bitmap_add |-> to_bitmap(rook_to),
           castle_bitmap_remove |-> to_bitmap(g.live_pieces[rook_from].pos)]
     ELSE [game |-> g, castle_bitmap_add |-> {}, castle_bitmap_remove |-> {}]

\* update bitmap, change the key of the piece, set the last_moved data
\* as place, but the piece keeps the has_moved it had
place_unmoved(c, piece, to) ==
  [c.game EXCEPT
     !.white_bitmap =
        IF piece.color = White
        THEN (@ \ (to_bitmap(piece.pos) \cup c.castle_bitmap_remove))
               \cup to_bitmap(to) \cup c.castle_bitmap_add
        ELSE @,
     !.black_bitmap =
        IF piece.color = Black
        THEN (@ \ (to_bitmap(piece.pos) \cup c.castle_bitmap_remove))
               \cup to_bitmap(to) \cup c.castle_bitmap_add
        ELSE @,
     !.live_pieces = MapInsert(MapRemove(@, piece.pos), to, [piece EXCEPT !.pos = to]),
     !.last_moved_from = piece.pos,
     !.last_moved_to = to]

place(c, piece, to) ==
  [c.game EXCEPT
     !.white_bitmap =
        IF piece.color = White
        THEN (@ \ (to_bitmap(piece.pos) \cup c.castle_bitmap_remove))
               \cup to_bitmap(to) \cup c.castle_bitmap_add
        ELSE @,
     !.black_bitmap =
        IF piece.color = Black
        THEN (@ \ (to_bitmap(piece.pos) \cup c.castle_bitmap_remove))
               \cup to_bitmap(to) \cup c.castle_bitmap_add
        ELSE @,
     !.live_pieces = MapInsert(MapRemove(@, piece.pos), to,
                               [piece EXCEPT !.pos = to, !.has_moved = TRUE]),
     !.last_moved_from = piece.pos,
     !.last_moved_to = to]

\* check for check, game over, 50 move rule, and changes turn
finish_move(g) == IF ~g.promotion THEN post_move(g) ELSE g

force_move(g, piece, to) ==
  IF to.x > 7 \/ to.y > 7 THEN [ok |-> FALSE, game |-> g]
  ELSE IF g.promotion THEN [ok |-> FALSE, game |-> g]
  ELSE [ok |-> TRUE,
        game |-> finish_move(
                   place(castle(pawn_moved(en_passant(take(g, to), piece, to), piece, to),
                                piece, to),
                         piece, to))]

(***************************************************************************)
(* The public operations.  Each returns [ok, game]: the value returned and *)
(* the Game afterwards.                                                    *)
(***************************************************************************)
\* as do_move, but the piece may be of either colour
do_move_any_color(g, from, to) ==
  IF from \notin DOMAIN g.live_pieces THEN [ok |-> FALSE, game |-> g]
  ELSE IF g.promotion THEN [ok |-> FALSE, game |-> g]
  ELSE IF legal_moves(g, g.live_pieces[from]) \cap to_bitmap(to) # {}
  THEN force_move(g, g.live_pieces[from], to)
  ELSE [ok |-> FALSE, game |-> g]

do_move(g, from, to) ==
  IF from \notin DOMAIN g.live_pieces THEN [ok |-> FALSE, game |-> g]
  ELSE LET piece == g.live_pieces[from]
       IN IF piece.color # g.turn THEN [ok |-> FALSE, game |-> g]
          ELSE IF g.promotion THEN [ok |-> FALSE, game |-> g]
          ELSE IF legal_moves(g, piece) \cap to_bitmap(to) # {}
          THEN force_move(g, piece, to)
          ELSE [ok |-> FALSE, game |-> g]

\* as pawn_promotion, but post_move is run twice
pawn_promotion_twice(g, class) ==
  IF class = King \/ class = Pawn \/ ~g.promotion THEN [ok |-> FALSE, game |-> g]
  ELSE IF g.last_moved_to \in DOMAIN g.live_pieces
  THEN [ok |-> TRUE,
        game |-> post_move(post_move(
                   [g EXCEPT !.live_pieces[g.last_moved_to].piece_type = class,
                             !.promotion = FALSE]))]
  ELSE [ok |-> FALSE, game |-> g]

\* as pawn_promotion, but the move is not finished with post_move
pawn_promotion_unfinished(g, class) ==
  IF class = King \/ class = Pawn \/ ~g.promotion THEN [ok |-> FALSE, game |-> g]
  ELSE IF g.last_moved_to \in DOMAIN g.live_pieces
  THEN [ok |-> TRUE,
        game |-> [g EXCEPT !.live_pieces[g.last_moved_to].piece_type = class,
                           !.promotion = FALSE]]
  ELSE [ok |-> FALSE, game |-> g]

\* as pawn_promotion, but the flag is cleared before the class is looked at
pawn_promotion_clears(g, class) ==
  IF ~g.promotion THEN [ok |-> FALSE, game |-> g]
  ELSE IF class = King \/ class = Pawn
  THEN [ok |-> FALSE, game |-> [g EXCEPT !.promotion = FALSE]]
  ELSE IF g.last_moved_to \in DOMAIN g.live_pieces
  THEN [ok |-> TRUE,
        game |-> post_move([g EXCEPT !.live_pieces[g.last_moved_to].piece_type = class,
                                     !.promotion = FALSE])]
  ELSE [ok |-> FALSE, game |-> g]

pawn_promotion(g, class) ==
  IF class = King \/ class = Pawn \/ ~g.promotion THEN [ok |-> FALSE, game |-> g]
  ELSE IF g.last_moved_to \in DOMAIN g.live_pieces
  THEN [ok |-> TRUE,
        game |-> post_move([g EXCEPT !.live_pieces[g.last_moved_to].piece_type = class,
                                     !.promotion = FALSE])]
  ELSE [ok |-> FALSE, game |-> g]

\* as declare_win, but also when the game is over
declare_win_always(g, color) ==
  [g EXCEPT !.result = IF color = White THEN WhiteWon ELSE BlackWon]

declare_draw(g) ==
  IF g.result = Ongoing THEN [g EXCEPT !.result = Draw] ELSE g

declare_win(g, color) ==
  IF g.result = Ongoing
  THEN [g EXCEPT !.result = IF color = White THEN WhiteWon ELSE BlackWon]
  ELSE g

(***************************************************************************)
(* Strings.  A String or &str of the source is a string; a char is a       *)
(* string of length 1.  Head, Tail, SubSeq, Len and \o are chars().next(), *)
(* the rest, a slice, len() and push_str.                                  *)
(***************************************************************************)
UpperCase == "ABCDEFGHIJKLMNOPQRSTUVWXYZ"

LowerCase == "abcdefghijklmnopqrstuvwxyz"

Digits == "0123456789"

\* str::contains of a char
contains(s, c) == \E i \in 1..Len(s) : SubSeq(s, i, i) = c

\* the place of the char c in s, 0 if it is not there
position(s, c) ==
  IF contains(s, c) THEN CHOOSE i \in 1..Len(s) : SubSeq(s, i, i) = c ELSE 0

\* char::to_ascii_uppercase, char::to_ascii_lowercase
to_ascii_uppercase(c) ==
  IF contains(LowerCase, c)
  THEN SubSeq(UpperCase, position(LowerCase, c), position(LowerCase, c))
  ELSE c

to_ascii_lowercase(c) ==
  IF contains(UpperCase, c)
  THEN SubSeq(LowerCase, position(UpperCase, c), position(UpperCase, c))
  ELSE c

\* the value of a decimal digit, -1 for any other char
digit(c) == position(Digits, c) - 1

\* str::parse::<u32>: the number, or -1 for Err(_) (empty, or a char that is no
\* digit); one "+" may stand in front.  The source also gives Err(_) above u32::MAX;
\* here a number has at most 9 digits, and a longer string is Err(_) as well.
RECURSIVE parse_digits(_, _)
parse_digits(s, value) ==
  IF s = "" THEN value
  ELSE IF digit(Head(s)) < 0 THEN -1
  ELSE parse_digits(Tail(s), value * 10 + digit(Head(s)))

parse_u32(s) ==
  IF s = "" \/ Len(s) > 9 THEN -1
  ELSE IF Head(s) = "+"
  THEN (IF Tail(s) = "" THEN -1 ELSE parse_digits(Tail(s), 0))
  ELSE parse_digits(s, 0)

\* to_string of an unsigned number
RECURSIVE to_string(_)
to_string(n) ==
  IF n < 10 THEN SubSeq(Digits, n + 1, n + 1)
  ELSE to_string(n \div 10) \o SubSeq(Digits, (n % 10) + 1, (n % 10) + 1)

\* str::trim().split_whitespace().collect(): the fields of the string
WhiteSpace == {" ", "\t", "\n", "\r"}

RECURSIVE split_loop(_, _, _)
split_loop(s, field, fields) ==
  IF s = "" THEN (IF field = "" THEN fields ELSE Append(fields, field))
  ELSE IF Head(s) \in WhiteSpace
  THEN split_loop(Tail(s), "", IF field = "" THEN fields ELSE Append(fields, field))
  ELSE split_loop(Tail(s), field \o Head(s), fields)

split_whitespace(s) == split_loop(s, "", << >>)

\* Square::from(&str): the first two chars, -1 for one that is missing
Square_from(pos) ==
  SquareFromStr(IF Len(pos) >= 1 THEN SubSeq(pos, 1, 1) ELSE "",
                IF Len(pos) >= 2 THEN SubSeq(pos, 2, 2) ELSE "")

\* Square::to_notation, of a square of the board
to_notation(s) == SubSeq(UpperCase, s.x + 1, s.x + 1) \o to_string(s.y + 1)

\* lower case of a String, char by char
RECURSIVE str_to_ascii_lowercase(_)
str_to_ascii_lowercase(s) ==
  IF s = "" THEN ""
  ELSE to_ascii_lowercase(Head(s)) \o str_to_ascii_lowercase(Tail(s))

(***************************************************************************)
(* Game::from_fen.  The fields are read one after the other into a         *)
(* Game::new(); the function returns where a field is missing, so each     *)
(* step leaves the Game as it is when there are fewer fields than it       *)
(* reads.                                                                  *)
(***************************************************************************)
\* the piece a char of field 1 stands for, on the square (x, y)
fen_piece(c, x, y) ==
  LET color == IF to_ascii_lowercase(c) = c THEN Black ELSE White
      class == to_ascii_uppercase(c)
  IN [piece_type |-> CASE class = "K" -> King
                       [] class = "Q" -> Queen
                       [] class = "B" -> Bishop
                       [] class = "N" -> Knight
                       [] class = "R" -> Rook
                       [] OTHER -> Pawn,
      color |-> color,
      pos |-> Sq(x, y),
      has_moved |-> CASE class = "K" -> FALSE
                      [] class = "P" -> (IF color = White THEN 1 ELSE 6) # y
                      [] OTHER -> TRUE]

\* the loop over the chars of field 1: the pieces it inserts, in the order of the
\* inserts
RECURSIVE fen_pieces_loop(_, _, _, _)
fen_pieces_loop(chars, x, y, pieces) ==
  IF chars = "" THEN pieces
  ELSE IF Head(chars) = "/" THEN fen_pieces_loop(Tail(chars), 0, y - 1, pieces)
  ELSE IF digit(Head(chars)) >= 0
  THEN fen_pieces_loop(Tail(chars), x + digit(Head(chars)), y, pieces)
  ELSE fen_pieces_loop(Tail(chars), x + 1, y, Append(pieces, fen_piece(Head(chars), x, y)))

\* the map after the inserts: under each key the piece inserted last
fen_inserted(pieces) ==
  [s \in {pieces[i].pos : i \in 1..Len(pieces)} |->
     pieces[CHOOSE i \in 1..Len(pieces) :
              pieces[i].pos = s /\ \A j \in (i + 1)..Len(pieces) : pieces[j].pos # s]]

\* 1 pieces
fen_pieces(g, fields) ==
  IF Len(fields) < 1 THEN g
  ELSE [g EXCEPT !.live_pieces = fen_inserted(fen_pieces_loop(fields[1], 0, 7, << >>))]

\* 2 turn: the other colour, post_move will change turn later
fen_turn(g, fields) ==
  IF Len(fields) < 2 THEN g
  ELSE [g EXCEPT !.turn = IF fields[2] = "b" THEN White ELSE Black]

\* 3 castling rights: the piece in the corner has not moved
fen_rook(live_pieces, field, c, square) ==
  IF contains(field, c) /\ square \in DOMAIN live_pieces
  THEN [live_pieces EXCEPT ![square].has_moved = FALSE]
  ELSE live_pieces

fen_castling(g, fields) ==
  IF Len(fields) < 3 THEN g
  ELSE [g EXCEPT !.live_pieces =
          fen_rook(fen_rook(fen_rook(fen_rook(@, fields[3], "Q", Sq(0, 0)),
                                     fields[3], "K", Sq(7, 0)),
                            fields[3], "q", Sq(0, 7)),
                   fields[3], "k", Sq(7, 7))]

\* 4 possible en passant target
fen_passant(g, fields) ==
  IF Len(fields) < 4 THEN g
  ELSE IF fields[4] = "-" THEN g
  ELSE [g EXCEPT !.last_moved_to = Square_from(fields[4]),
                 !.last_moved_from =
                    moved(Square_from(fields[4]), 0, IF g.turn = White THEN 2 ELSE -2)]

\* 5 halfmove clock
fen_halfmove(g, fields) ==
  IF Len(fields) < 5 THEN g
  ELSE [g EXCEPT !.fifty_move_rule =
          IF parse_u32(fields[5]) >= 0 THEN parse_u32(fields[5]) ELSE @]

\* 6 fullmove number
fen_parsed_fullmoves(g, fields) ==
  IF parse_u32(fields[6]) >= 0 THEN parse_u32(fields[6]) ELSE g.fullmoves

\* as fen_fullmove, but the number is stored as it is read
fen_fullmove_plain(g, fields) ==
  IF Len(fields) < 6 THEN g
  ELSE [g EXCEPT !.fullmoves = fen_parsed_fullmoves(g, fields)]

fen_fullmove(g, fields) ==
  IF Len(fields) < 6 THEN g
  ELSE [g EXCEPT !.fullmoves =
          IF g.turn = Black /\ fen_parsed_fullmoves(g, fields) > 0
          THEN fen_parsed_fullmoves(g, fields) - 1
          ELSE fen_parsed_fullmoves(g, fields)]

_make_color_bitmap(live_pieces, color) ==
  UNION {to_bitmap(live_pieces[k].pos) :
           k \in {q \in DOMAIN live_pieces : live_pieces[q].color = color}}

\* bitmaps, and post_move
fen_bitmaps(g, fields) ==
  IF Len(fields) < 6 THEN g
  ELSE post_move([g EXCEPT !.white_bitmap = _make_color_bitmap(g.live_pieces, White),
                           !.black_bitmap = _make_color_bitmap(g.live_pieces, Black)])

from_fen_fields(fields) ==
  fen_bitmaps(
    fen_fullmove(
      fen_halfmove(
        fen_passant(
          fen_castling(fen_turn(fen_pieces(New, fields), fields), fields),
          fields),
        fields),
      fields),
    fields)

from_fen(fen) == from_fen_fields(split_whitespace(fen))

(***************************************************************************)
(* Game::to_fen                                                            *)
(***************************************************************************)
\* the char of a piece
fen_char(piece) ==
  LET c == CASE piece.piece_type = King -> "K"
             [] piece.piece_type = Queen -> "Q"
             [] piece.piece_type = Bishop -> "B"
             [] piece.piece_type = Knight -> "N"
             [] piece.piece_type = Rook -> "R"
             [] piece.piece_type = Pawn -> "P"
  IN IF piece.color = Black THEN to_ascii_lowercase(c) ELSE c

fen_empty(empty_spaces) == IF empty_spaces > 0 THEN to_string(empty_spaces) ELSE ""

\* the loop over x of one rank, from x on, with empty_spaces before it
RECURSIVE fen_rank(_, _, _, _)
fen_rank(live_pieces, x, y, empty_spaces) ==
  IF x = 8 THEN fen_empty(empty_spaces)
  ELSE IF Sq(x, y) \in DOMAIN live_pieces
  THEN fen_empty(empty_spaces) \o fen_char(live_pieces[Sq(x, y)])
         \o fen_rank(live_pieces, x + 1, y, 0)
  ELSE fen_rank(live_pieces, x + 1, y, empty_spaces + 1)

\* 1 pieces: the loop over y, from y down
RECURSIVE fen_ranks(_, _)
fen_ranks(live_pieces, y) ==
  IF y = 0 THEN fen_rank(live_pieces, 0, y, 0)
  ELSE fen_rank(live_pieces, 0, y, 0) \o "/" \o fen_ranks(live_pieces, y - 1)

\* an unmoved rook stands on the square
fen_rook_unmoved(live_pieces, square) ==
  IF square \in DOMAIN live_pieces
  THEN live_pieces[square].piece_type = Rook /\ ~live_pieces[square].has_moved
  ELSE FALSE

\* 3 castling rights of the king on (4, y): the chars for its rook of file H and of file A
fen_rights(live_pieces, y, short, long) ==
  IF Sq(4, y) \in DOMAIN live_pieces
  THEN IF live_pieces[Sq(4, y)].piece_type = King /\ ~live_pieces[Sq(4, y)].has_moved
       THEN (IF fen_rook_unmoved(live_pieces, Sq(7, y)) THEN short ELSE "")
              \o (IF fen_rook_unmoved(live_pieces, Sq(0, y)) THEN long ELSE "")
       ELSE ""
  ELSE ""

fen_any_rights(rights) == IF rights # "" THEN rights \o " " ELSE "- "

\* 4 possible en passant targets
fen_target(g) ==
  IF g.last_moved_to \in DOMAIN g.live_pieces
  THEN IF g.live_pieces[g.last_moved_to].piece_type = Pawn
          /\ moved(g.last_moved_from, 0, get_direction(g.live_pieces[g.last_moved_to]) * 2)
               = g.last_moved_to
       THEN str_to_ascii_lowercase(to_notation(g.last_moved_to)) \o " "
       ELSE "- "
  ELSE "- "

to_fen(g) ==
  fen_ranks(g.live_pieces, 7)
    \o (IF g.turn = White THEN " w " ELSE " b ")
    \o fen_any_rights(fen_rights(g.live_pieces, 0, "K", "Q")
                        \o fen_rights(g.live_pieces, 7, "k", "q"))
    \o fen_target(g)
    \o to_string(g.fifty_move_rule) \o " "
    \o to_string(g.fullmoves)

(***************************************************************************)
(* The callers.  The library is driven through do_move, pawn_promotion,    *)
(* declare_draw and declare_win.  A caller is a finite set of calls it may *)
(* make, in any order and any number of times, up to a number of completed *)
(* moves; every game starts from Game::new().                              *)
(***************************************************************************)
M(f1, r1, f2, r2) == [from |-> SquareFromStr(f1, r1), to |-> SquareFromStr(f2, r2)]

MaxPlyMate == 5
MaxPlyCastle == 10
MaxPlyPassant == 6
MaxPlyPromote == 10
MaxPlyRepeat == 9
MaxPlyCorner == 9
MaxPlyPinned == 7
MaxPlyQuiet == 101

\* the fool's mate, and a caller that declares results
MateCalls ==
  [name |-> "mate", depth |-> MaxPlyMate, declares |-> TRUE, classes |-> {},
   moves |-> {M("F", "2", "F", "3"), M("E", "7", "E", "5"), M("G", "2", "G", "4"),
              M("D", "8", "H", "4"), M("E", "2", "E", "4")}]

\* White develops and castles short, or the king or the rook steps aside and back;
\* Black pushes the a-pawn
CastleCalls ==
  [name |-> "castle", depth |-> MaxPlyCastle, declares |-> FALSE, classes |-> {},
   moves |-> {M("E", "2", "E", "4"), M("G", "1", "F", "3"), M("F", "1", "C", "4"),
              M("E", "1", "G", "1"), M("E", "1", "E", "2"), M("E", "2", "E", "1"),
              M("H", "1", "G", "1"), M("G", "1", "H", "1"),
              M("A", "7", "A", "6"), M("A", "6", "A", "5"), M("A", "5", "A", "4"),
              M("A", "4", "A", "3"), M("A", "3", "B", "2")}]

\* a pawn reaches the fifth rank and the neighbours advance two squares
PassantCalls ==
  [name |-> "passant", depth |-> MaxPlyPassant, declares |-> FALSE, classes |-> {},
   moves |-> {M("E", "2", "E", "4"), M("A", "7", "A", "6"), M("E", "4", "E", "5"),
              M("D", "7", "D", "5"), M("E", "5", "D", "6"), M("A", "2", "A", "3"),
              M("A", "6", "A", "5"), M("D", "7", "D", "6"), M("D", "6", "D", "5")}]

\* the a-pawn takes its way to a8
PromoteCalls ==
  [name |-> "promote", depth |-> MaxPlyPromote, declares |-> FALSE,
   classes |-> {Queen, Knight, King, Pawn},
   moves |-> {M("A", "2", "A", "4"), M("B", "7", "B", "5"), M("A", "4", "B", "5"),
              M("A", "7", "A", "6"), M("B", "5", "A", "6"), M("C", "8", "B", "7"),
              M("A", "6", "B", "7"), M("B", "7", "A", "8"), M("H", "7", "H", "6"),
              M("H", "6", "H", "5"), M("A", "8", "B", "8")}]

\* the knights go out and come back
RepeatCalls ==
  [name |-> "repeat", depth |-> MaxPlyRepeat, declares |-> FALSE, classes |-> {},
   moves |-> {M("G", "1", "F", "3"), M("F", "3", "G", "1"), M("G", "8", "F", "6"),
              M("F", "6", "G", "8"), M("B", "1", "C", "3"), M("C", "3", "B", "1")}]

\* a bishop takes its way to g1 while the king and the rook of that side stay at home
CornerCalls ==
  [name |-> "corner", depth |-> MaxPlyCorner, declares |-> FALSE, classes |-> {},
   moves |-> {M("E", "2", "E", "3"), M("E", "7", "E", "6"), M("F", "1", "E", "2"),
              M("F", "8", "D", "6"), M("A", "2", "A", "3"), M("D", "6", "H", "2"),
              M("A", "3", "A", "4"), M("H", "2", "G", "1"), M("E", "1", "G", "1"),
              M("H", "1", "G", "1")}]

\* a pawn stands between its king and the queen when the neighbour advances two squares
PinnedCalls ==
  [name |-> "pinned", depth |-> MaxPlyPinned, declares |-> FALSE, classes |-> {},
   moves |-> {M("E", "2", "E", "4"), M("D", "7", "D", "5"), M("E", "4", "D", "5"),
              M("E", "7", "E", "5"), M("D", "5", "E", "6"), M("D", "1", "E", "2"),
              M("E", "5", "E", "4"), M("F", "2", "F", "4"), M("E", "4", "F", "3")}]

\* a white and a black knight go round and round, on a cycle of 6 and of 10 squares
QuietCalls ==
  [name |-> "quiet", depth |-> MaxPlyQuiet, declares |-> FALSE, classes |-> {},
   moves |-> {M("G", "1", "F", "3"), M("F", "3", "D", "4"), M("D", "4", "B", "5"),
              M("B", "5", "A", "3"), M("A", "3", "C", "4"), M("C", "4", "E", "5"),
              M("E", "5", "F", "3"),
              M("G", "8", "F", "6"), M("F", "6", "G", "4"), M("G", "4", "H", "6"),
              M("H", "6", "F", "5"), M("F", "5", "D", "6"), M("D", "6", "E", "4"),
              M("E", "4", "G", "5"), M("G", "5", "E", "6"), M("E", "6", "F", "4"),
              M("F", "4", "H", "5"), M("H", "5", "F", "6")}]

\* the game of tests::test_game, move by move; before the 12th move the caller also
\* asks for A4-A3.  script is the set of calls it makes after each number of moves.
MaxPlyReference == 13

ReferenceGame ==
  <<M("E", "2", "E", "4"), M("D", "7", "D", "5"), M("E", "4", "D", "5"),
    M("C", "8", "E", "6"), M("D", "1", "F", "3"), M("B", "8", "D", "7"),
    M("D", "5", "E", "6"), M("A", "7", "A", "5"), M("A", "2", "A", "3"),
    M("A", "5", "A", "4"), M("B", "2", "B", "4"), M("A", "4", "B", "3"),
    M("F", "3", "F", "7")>>

ReferenceScript ==
  [i \in 1..Len(ReferenceGame) |->
     IF i = 12 THEN {M("A", "4", "A", "3"), ReferenceGame[i]} ELSE {ReferenceGame[i]}]

ReferenceCalls ==
  [name |-> "reference", depth |-> MaxPlyReference, declares |-> FALSE, classes |-> {},
   moves |-> UNION {ReferenceScript[i] : i \in 1..Len(ReferenceGame)},
   script |-> ReferenceScript]

\* the white bishop takes three moves to come home and the black knight two: after
\* e3 and Nf6 the caller plays Bd3 Ng8, Be2 Nf6, Bf1 Ng8 twice, but for the last move
MaxPlyTempo == 13

TempoGame ==
  <<M("E", "2", "E", "3"), M("G", "8", "F", "6"),
    M("F", "1", "D", "3"), M("F", "6", "G", "8"), M("D", "3", "E", "2"),
    M("G", "8", "F", "6"), M("E", "2", "F", "1"), M("F", "6", "G", "8"),
    M("F", "1", "D", "3"), M("G", "8", "F", "6"), M("D", "3", "E", "2"),
    M("F", "6", "G", "8"), M("E", "2", "F", "1")>>

TempoCalls ==
  [name |-> "tempo", depth |-> MaxPlyTempo, declares |-> FALSE, classes |-> {},
   moves |-> {TempoGame[i] : i \in 1..Len(TempoGame)},
   script |-> [i \in 1..Len(TempoGame) |-> {TempoGame[i]}]]

\* the king's knights go out and come back, again and again: cycle is the calls in
\* their order, begun again after the last
MaxPlyShuffle == 1020

ShuffleCalls ==
  [name |-> "shuffle", depth |-> MaxPlyShuffle, declares |-> FALSE, classes |-> {},
   moves |-> {M("G", "1", "F", "3"), M("G", "8", "F", "6"), M("F", "3", "G", "1"),
              M("F", "6", "G", "8")},
   cycle |-> <<M("G", "1", "F", "3"), M("G", "8", "F", "6"), M("F", "3", "G", "1"),
               M("F", "6", "G", "8")>>]

\* White's king's rook goes to G4 and the queen's rook by A3 and H3 to H1, then the
\* bishop and the knight leave F1 and G1; Black moves pawns.  At the end the caller
\* tries to castle with the rook that now stands on H1
MaxPlyRooks == 23

RooksGame ==
  <<M("H", "2", "H", "4"), M("A", "7", "A", "6"), M("H", "1", "H", "3"),
    M("B", "7", "B", "6"), M("H", "3", "G", "3"), M("C", "7", "C", "6"),
    M("G", "3", "G", "4"), M("D", "7", "D", "6"), M("A", "2", "A", "4"),
    M("E", "7", "E", "6"), M("A", "1", "A", "3"), M("F", "7", "F", "6"),
    M("A", "3", "H", "3"), M("G", "7", "G", "6"), M("H", "3", "H", "1"),
    M("H", "7", "H", "6"), M("E", "2", "E", "4"), M("A", "6", "A", "5"),
    M("F", "1", "C", "4"), M("C", "6", "C", "5"), M("G", "1", "F", "3"),
    M("H", "6", "H", "5"), M("E", "1", "G", "1")>>

RooksScript ==
  [i \in 1..Len(RooksGame) |->
     IF i = Len(RooksGame) THEN {M("E", "1", "F", "1"), RooksGame[i]} ELSE {RooksGame[i]}]

RooksCalls ==
  [name |-> "rooks", depth |-> MaxPlyRooks, declares |-> FALSE, classes |-> {},
   moves |-> UNION {RooksScript[i] : i \in 1..Len(RooksGame)},
   script |-> RooksScript]

Callers == {MateCalls, CastleCalls, PassantCalls, PromoteCalls, RepeatCalls,
            CornerCalls, PinnedCalls, QuietCalls, ReferenceCalls, TempoCalls,
            ShuffleCalls, RooksCalls}

(***************************************************************************)
(* The callers that begin with Game::from_fen.  given is what the caller   *)
(* means to say, field by field ("" for a field that is not given); fen is *)
(* the string it passes.                                                   *)
(***************************************************************************)
FenFields == 6

MaxPlyStale == 2
MaxPlyBackRank == 2
MaxPlyMinor == 3
MaxPlyCrown == 2
MaxPlyLastRank == 2

\* the first fields given, with one space between two fields
RECURSIVE FenJoin(_, _)
FenJoin(fields, n) ==
  IF n = 1 THEN fields[1] ELSE FenJoin(fields, n - 1) \o " " \o fields[n]

FenText(given) ==
  FenJoin(<<given.board, given.turn, given.rights, given.passant,
            given.halfmove, given.fullmove>>, given.fields)

Given(board, turn, rights, passant, halfmove, fullmove, n) ==
  [board |-> board,
   turn |-> IF n >= 2 THEN turn ELSE "",
   rights |-> IF n >= 3 THEN rights ELSE "",
   passant |-> IF n >= 4 THEN passant ELSE "",
   halfmove |-> IF n >= 5 THEN halfmove ELSE "",
   fullmove |-> IF n >= 6 THEN fullmove ELSE "",
   fields |-> n]

FenCaller(name, given, depth, declares, classes, moves) ==
  [name |-> name, given |-> given, fen |-> FenText(given), depth |-> depth,
   declares |-> declares, classes |-> classes, moves |-> moves]

\* positions of the opening, kings and rooks at home: the first position; after Nf3;
\* after e4; after e4 a6, e5 d5; after a3 d5, a4 d4, e4; after f3 e5, g4 Qh4
FenPositions ==
  {[board |-> "rnbqkbnr/pppppppp/8/8/8/8/PPPPPPPP/RNBQKBNR", turn |-> "w", passant |-> "-"],
   [board |-> "rnbqkbnr/pppppppp/8/8/8/5N2/PPPPPPPP/RNBQKB1R", turn |-> "b", passant |-> "-"],
   [board |-> "rnbqkbnr/pppppppp/8/8/4P3/8/PPPP1PPP/RNBQKBNR", turn |-> "b", passant |-> "e3"],
   [board |-> "rnbqkbnr/1pp1pppp/p7/3pP3/8/8/PPPP1PPP/RNBQKBNR", turn |-> "w",
    passant |-> "d6"],
   [board |-> "rnbqkbnr/ppp1pppp/8/8/P2pP3/8/1PPP1PPP/RNBQKBNR", turn |-> "b",
    passant |-> "e3"],
   [board |-> "rnb1kbnr/pppp1ppp/8/4p3/6Pq/5P2/PPPPP2P/RNBQKBNR", turn |-> "w",
    passant |-> "-"]}

\* every subset of the castling rights
FenRights ==
  {"-", "K", "Q", "k", "q", "KQ", "Kk", "Kq", "Qk", "Qq", "kq",
   "KQk", "KQq", "Kkq", "Qkq", "KQkq"}

\* halfmove clock and fullmove number
FenClocks == {<<"0", "1">>, <<"12", "34">>}

\* a caller that reads a string and writes it again
CodecCallers ==
  {FenCaller("codec", Given(p.board, p.turn, r, p.passant, c[1], c[2], n), 0, FALSE, {}, {}) :
     p \in FenPositions, r \in FenRights, c \in FenClocks, n \in 1..FenFields}

\* the queen takes the last squares of the king in the corner; the caller declares
StaleCalls ==
  FenCaller("stale", Given("7k/8/8/6Q1/8/8/8/K7", "w", "-", "-", "0", "1", FenFields),
            MaxPlyStale, TRUE, {},
            {M("G", "5", "G", "6"), M("G", "5", "G", "1"), M("H", "8", "H", "7")})

\* the rook goes to the last rank, after 99 half-moves without a pawn move or capture
BackRankCalls ==
  FenCaller("backrank", Given("6k1/5ppp/8/8/8/8/8/R3K3", "w", "Q", "-", "99", "80", FenFields),
            MaxPlyBackRank, FALSE, {},
            {M("A", "1", "A", "8"), M("A", "1", "A", "7"), M("G", "8", "F", "8"),
             M("E", "1", "C", "1")})

\* kings, bishops and knights take each other
MinorCalls ==
  FenCaller("minor", Given("4k3/8/8/8/8/8/3nn3/2B1KB2", "w", "-", "-", "0", "1", FenFields),
            MaxPlyMinor, FALSE, {},
            {M("E", "1", "D", "2"), M("E", "2", "C", "1"), M("D", "2", "C", "1"),
             M("F", "1", "E", "2"), M("E", "8", "D", "7"), M("E", "2", "F", "1")})

\* the pawn goes to the last rank, where a queen or a rook is checkmate
CrownCalls ==
  FenCaller("crown", Given("6k1/P4ppp/8/8/8/8/8/4K3", "w", "-", "-", "0", "1", FenFields),
            MaxPlyCrown, FALSE, PieceType,
            {M("A", "7", "A", "8"), M("E", "1", "E", "2"), M("G", "8", "F", "8"),
             M("H", "7", "H", "6")})

\* a black pawn goes to its last rank, straight on or taking the knight, and a white
\* pawn to its own
LastRankCalls ==
  FenCaller("lastrank", Given("4k3/7P/8/8/8/8/p7/1N2K3", "b", "-", "-", "0", "1", FenFields),
            MaxPlyLastRank, FALSE, PieceType,
            {M("A", "2", "A", "1"), M("A", "2", "B", "1"), M("H", "7", "H", "8"),
             M("E", "8", "E", "7"), M("E", "1", "E", "2")})

FenCallers ==
  CodecCallers \cup {StaleCalls, BackRankCalls, MinorCalls, CrownCalls, LastRankCalls}

(***************************************************************************)
(* State: the Game, the caller, the number of completed do_move calls, the *)
(* last call that moved a piece, and two records of the game so far that   *)
(* the program does not keep: quiet, the half-moves made since the last    *)
(* pawn move or capture, and history, how often each position has stood on *)
(* the board since then (a position is counted when its move is            *)
(* completed).  fen is the String the last call of to_fen returned, ""     *)
(* before the first.  positions is history with the side to move: how     *)
(* often each position has stood on the board with that side to move.      *)
(***************************************************************************)
VARIABLES game, caller, ply, last, quiet, history, fen, positions

vars == <<game, caller, ply, last, quiet, history, fen, positions>>

\* a position as the rules of chess have it: the encoding and the side to move
Position(g) == [value |-> BoardValue_from(g), turn |-> g.turn]

Occurred(h, v) == IF v \in DOMAIN h THEN h[v] ELSE 0

Counted(h, v) == MapInsert(h, v, Occurred(h, v) + 1)

\* the call moved a pawn or took a piece off the board
Irreversible(g, call, after) ==
  /\ call.op = "do_move"
  /\ \/ g.live_pieces[call.from].piece_type = Pawn
     \/ Cardinality(DOMAIN after.live_pieces) < Cardinality(DOMAIN g.live_pieces)

Init ==
  /\ game = New
  /\ caller \in Callers
  /\ ply = 0
  /\ last = [op |-> "new"]
  /\ quiet = 0
  /\ history = Counted(<< >>, BoardValue_from(New))
  /\ fen = ""
  /\ positions = Counted(<< >>, Position(New))

\* the records of a call that moved: r.ok, and call is do_move or pawn_promotion
Recorded(r, call) ==
  /\ quiet' = IF call.op = "pawn_promotion" THEN quiet
              ELSE IF Irreversible(game, call, r.game) THEN 0 ELSE quiet + 1
  /\ history' = IF r.game.promotion THEN << >>
                ELSE Counted(IF call.op = "do_move" /\ ~Irreversible(game, call, r.game)
                             THEN history ELSE << >>,
                             BoardValue_from(r.game))
  /\ positions' = IF r.game.promotion THEN << >>
                  ELSE Counted(IF call.op = "do_move" /\ ~Irreversible(game, call, r.game)
                               THEN positions ELSE << >>,
                               Position(r.game))

\* what a call leaves: r is [ok, game], call is the record of the call
Returned(r, call) ==
  /\ game' = r.game
  /\ ply' = IF r.ok /\ call.op = "do_move" THEN ply + 1 ELSE ply
  /\ IF r.ok /\ call.op \in {"do_move", "pawn_promotion"}
     THEN last' = call /\ Recorded(r, call)
     ELSE UNCHANGED <<last, quiet, history, positions>>
  /\ UNCHANGED <<caller, fen>>

\* do_move(from, to); a call that returns false leaves everything as it was
DoMove(from, to) ==
  /\ ply < caller.depth
  /\ Returned(do_move(game, from, to), [op |-> "do_move", from |-> from, to |-> to])

\* pawn_promotion(class)
PawnPromotion(class) ==
  Returned(pawn_promotion(game, class), [op |-> "pawn_promotion", class |-> class])

\* declare_draw()
DeclareDraw ==
  /\ caller.declares
  /\ Returned([ok |-> TRUE, game |-> declare_draw(game)], [op |-> "declare_draw"])

\* declare_win(color)
DeclareWin(color) ==
  /\ caller.declares
  /\ Returned([ok |-> TRUE, game |-> declare_win(game, color)],
              [op |-> "declare_win", color |-> color])

\* the calls of do_move the caller may make after n moves
CallsAt(c, n) ==
  IF "script" \in DOMAIN c
  THEN (IF n < Len(c.script) THEN c.script[n + 1] ELSE {})
  ELSE IF "cycle" \in DOMAIN c
  THEN {c.cycle[(n % Len(c.cycle)) + 1]}
  ELSE c.moves

Next ==
  \/ \E m \in CallsAt(caller, ply) : DoMove(m.from, m.to)
  \/ \E class \in caller.classes : PawnPromotion(class)
  \/ DeclareDraw
  \/ \E color \in PieceColor : DeclareWin(color)

Spec == Init /\ [][Next]_vars

(***************************************************************************)
(* The same with Game::from_fen in the place of Game::new, and with        *)
(* to_fen.  The clock of the string is taken for the half-moves made       *)
(* before.                                                                 *)
(***************************************************************************)
FenStart(g) ==
  /\ game = g
  /\ ply = 0
  /\ last = [op |-> "from_fen"]
  /\ quiet = g.fifty_move_rule
  /\ history = Counted(<< >>, BoardValue_from(g))
  /\ fen = ""
  /\ positions = Counted(<< >>, Position(g))

FenInit ==
  /\ caller \in FenCallers
  /\ FenStart(from_fen(caller.fen))

\* to_fen()
ToFen ==
  /\ fen' = to_fen(game)
  /\ UNCHANGED <<game, caller, ply, last, quiet, history, positions>>

FenNext ==
  \/ Next
  \/ ToFen

FenSpec == FenInit /\ [][FenNext]_vars

(***************************************************************************)
(* bitmap_line on its own: a caller passes a start square, a direction and *)
(* two masks, and the loop makes its turns until the function returns.     *)
(* The masks are those of pieces on some of RayPieces, each of them of the *)
(* own colour, of the other colour or absent; last is the state of the     *)
(* loop and ply counts its turns.                                          *)
(***************************************************************************)
RayPieces == {Sq(1, 0), Sq(3, 3), Sq(4, 4), Sq(5, 5)}

RayDirections == {d \in (-1..1) \X (-1..1) : d # <<0, 0>>}

RayCallers ==
  {[name |-> "ray", start |-> start, dx |-> d[1], dy |-> d[2],
    own_color_bitmap |-> own, other_color_bitmap |-> other] :
     start \in BoardSquares, d \in RayDirections,
     own \in SUBSET RayPieces, other \in SUBSET RayPieces}

RayInit ==
  /\ caller \in {c \in RayCallers : c.own_color_bitmap \cap c.other_color_bitmap = {}}
  /\ game = New
  /\ ply = 0
  /\ last = [op |-> "loop", square |-> caller.start, moves |-> {}]
  /\ quiet = 0
  /\ history = << >>
  /\ fen = ""
  /\ positions = << >>

BitmapLineTurn ==
  /\ last.op = "loop"
  /\ last' = bitmap_line_turn(last, caller.dx, caller.dy, caller.own_color_bitmap,
                              caller.other_color_bitmap)
  /\ ply' = ply + 1
  /\ UNCHANGED <<game, caller, quiet, history, fen, positions>>

RayNext == BitmapLineTurn

\* the loop has nothing to wait for: a turn that can be made is made
RaySpec == RayInit /\ [][RayNext]_vars /\ WF_vars(RayNext)

(***************************************************************************)
(* The rules of chess the properties are stated with, on the piece map     *)
(* alone: which squares a piece attacks.                                   *)
(***************************************************************************)
Abs(n) == IF n < 0 THEN -n ELSE n

Sign(n) == IF n < 0 THEN -1 ELSE IF n > 0 THEN 1 ELSE 0

Max(a, b) == IF a > b THEN a ELSE b

Aligned(a, b) ==
  a # b /\ (a.x = b.x \/ a.y = b.y \/ Abs(a.x - b.x) = Abs(a.y - b.y))

\* the squares strictly between two squares of a rank, a file or a diagonal
Between(a, b) ==
  IF Aligned(a, b)
  THEN {Sq(a.x + i * Sign(b.x - a.x), a.y + i * Sign(b.y - a.y)) :
          i \in 1..(Max(Abs(b.x - a.x), Abs(b.y - a.y)) - 1)}
  ELSE {}

Attacks(pieces, p, s) ==
  LET t == pieces[p].piece_type
      dx == Abs(s.x - p.x)
      dy == Abs(s.y - p.y)
      clear == Between(p, s) \cap DOMAIN pieces = {}
  IN CASE t = King -> Max(dx, dy) = 1
       [] t = Knight -> {dx, dy} = {1, 2}
       [] t = Pawn -> dx = 1 /\ s.y - p.y = (IF pieces[p].color = White THEN 1 ELSE -1)
       [] t = Rook -> p # s /\ (dx = 0 \/ dy = 0) /\ clear
       [] t = Bishop -> p # s /\ dx = dy /\ clear
       [] t = Queen -> Aligned(p, s) /\ clear

Attacked(pieces, s, by) ==
  \E p \in DOMAIN pieces : pieces[p].color = by /\ Attacks(pieces, p, s)

KingSafe(pieces, color) ==
  \A k \in DOMAIN pieces :
     pieces[k].piece_type = King /\ pieces[k].color = color
       => ~Attacked(pieces, k, Not(color))

\* the calls of do_move that are tried in every state: those of the caller, the same
\* backwards, and to a square off the board
Attempts ==
  caller.moves \cup {[from |-> m.to, to |-> m.from] : m \in caller.moves}
    \cup {[from |-> m.to, to |-> Sq(8, 0)] : m \in caller.moves}

(***************************************************************************)
(* C1.  No-self-check: in every reachable position, for every square with  *)
(* a piece of the side to move and every destination get_moves_bitmap      *)
(* returns for it, do_move to that destination (followed by pawn_promotion *)
(* to any class when a promotion becomes pending) leaves a position in     *)
(* which no opposing piece attacks the king of the side that moved.        *)
(***************************************************************************)
C1_MoverSafe(color, g) ==
  IF g.promotion
  THEN \A class \in PieceType : KingSafe(pawn_promotion(g, class).game.live_pieces, color)
  ELSE KingSafe(g.live_pieces, color)

C1_NoSelfCheck ==
  \A from \in DOMAIN game.live_pieces :
     \A to \in get_moves_bitmap(game, from) :
        C1_MoverSafe(game.turn, do_move(game, from, to).game)

\* a position in which a piece of the side to move has moves, fewer than its
\* pseudo-legal ones: the others would leave its king attacked
C1_Witness ==
  /\ ~game.promotion
  /\ \E from \in DOMAIN game.live_pieces :
        /\ get_moves_bitmap(game, from) # {}
        /\ psuedo_legal_moves(game, game.live_pieces[from], own_bitmap(game, game.turn),
                              other_bitmap(game, game.turn))
             \ get_moves_bitmap(game, from) # {}

(***************************************************************************)
(* C2.  Board consistency: in every reachable state white_bitmap is the    *)
(* set of the keys of live_pieces that hold a white piece, black_bitmap    *)
(* the set of those that hold a black piece, the two are disjoint, and     *)
(* every key of live_pieces is the pos of the piece stored under it.       *)
(***************************************************************************)
C2_BoardConsistent ==
  /\ game.white_bitmap = {k \in DOMAIN game.live_pieces : game.live_pieces[k].color = White}
  /\ game.black_bitmap = {k \in DOMAIN game.live_pieces : game.live_pieces[k].color = Black}
  /\ game.white_bitmap \cap game.black_bitmap = {}
  /\ \A k \in DOMAIN game.live_pieces : game.live_pieces[k].pos = k

\* a pawn has just taken en passant: it stands on the square it went to diagonally,
\* and the pawn it took has left the square beside the one it came from
C2_Witness ==
  /\ last.op = "do_move" /\ last.from.x # last.to.x
  /\ last.to \in DOMAIN game.live_pieces
  /\ game.live_pieces[last.to].piece_type = Pawn
  /\ game.capture
  /\ Sq(last.to.x, last.from.y) \notin DOMAIN game.live_pieces
  /\ Len(game.black_captured_pieces) + Len(game.white_captured_pieces) = 1
  /\ quiet = 0

(***************************************************************************)
(* C3.  Castling is among the legal moves of the king of the side to move  *)
(* if and only if the king is unmoved, the rook of that side (file A or    *)
(* file H, same rank) is unmoved, every square strictly between king and   *)
(* rook holds no piece of either colour, the king is not attacked, and     *)
(* neither the square the king passes over nor the square it goes to is    *)
(* attacked.                                                               *)
(***************************************************************************)
C3_Allowed(pieces, k, dx) ==
  LET rook_square == Sq(IF dx < 0 THEN 0 ELSE 7, k.y)
      enemy == Not(pieces[k].color)
  IN /\ ~pieces[k].has_moved
     /\ rook_square \in DOMAIN pieces
     /\ pieces[rook_square].piece_type = Rook
     /\ pieces[rook_square].color = pieces[k].color
     /\ ~pieces[rook_square].has_moved
     /\ Between(k, rook_square) \cap DOMAIN pieces = {}
     /\ ~Attacked(pieces, k, enemy)
     /\ ~Attacked(pieces, Sq(k.x + dx, k.y), enemy)
     /\ ~Attacked(pieces, Sq(k.x + 2 * dx, k.y), enemy)

C3_CastlingIff ==
  ~game.promotion =>
    \A k \in DOMAIN game.live_pieces :
       game.live_pieces[k].piece_type = King /\ game.live_pieces[k].color = game.turn
         => \A dx \in {-1, 1} :
               Sq(k.x + 2 * dx, k.y) \in legal_moves(game, game.live_pieces[k])
                 <=> C3_Allowed(game.live_pieces, k, dx)

(***************************************************************************)
(* C4.  The result is absorbing: once result is WhiteWon, BlackWon or      *)
(* Draw, no step (do_move, pawn_promotion, declare_draw, declare_win)      *)
(* changes it.                                                             *)
(***************************************************************************)
C4_ResultAbsorbing == [][game.result # Ongoing => game'.result = game.result]_vars

(***************************************************************************)
(* C5.  Turn alternates on completed moves: a do_move that succeeds and    *)
(* leaves no promotion pending flips turn; one that leaves a promotion     *)
(* pending does not, and the pawn_promotion that succeeds flips it; a      *)
(* do_move or pawn_promotion that fails, declare_draw and declare_win      *)
(* leave turn as it is.                                                    *)
(***************************************************************************)
C5_Move(g, r) ==
  r.game.turn = (IF r.ok /\ ~r.game.promotion THEN Not(g.turn) ELSE g.turn)

C5_Promotion(g, r) == r.game.turn = (IF r.ok THEN Not(g.turn) ELSE g.turn)

C5_TurnAlternates ==
  /\ \A m \in Attempts : C5_Move(game, do_move(game, m.from, m.to))
  /\ \A class \in PieceType : C5_Promotion(game, pawn_promotion(game, class))
  /\ declare_draw(game).turn = game.turn
  /\ \A color \in PieceColor : declare_win(game, color).turn = game.turn

\* White has promoted: the pawn went to the last rank, the class was chosen, and it
\* is Black's turn
C5_Witness ==
  /\ last.op = "pawn_promotion"
  /\ ~game.promotion
  /\ game.turn = Black
  /\ game.last_moved_to.y = 7

(***************************************************************************)
(* C6.  While a promotion is pending every do_move(from, to), for any two  *)
(* squares, returns false and changes nothing; declare_draw, declare_win   *)
(* and a pawn_promotion that fails leave the promotion pending: only a     *)
(* pawn_promotion that succeeds clears the flag.                           *)
(***************************************************************************)
C6_Unchanged(g, r) == ~r.ok /\ r.game = g

C6_StillPending(g, r) == ~r.ok => r.game.promotion

C6_PromotionBlocks ==
  game.promotion =>
    /\ \A from \in BoardSquares : \A to \in BoardSquares :
          C6_Unchanged(game, do_move(game, from, to))
    /\ \A class \in PieceType : C6_StillPending(game, pawn_promotion(game, class))
    /\ declare_draw(game).promotion
    /\ \A color \in PieceColor : declare_win(game, color).promotion

\* a pawn has gone to the last rank and the class is not chosen yet
C6_Witness ==
  /\ game.promotion
  /\ last.op = "do_move"
  /\ game.live_pieces[last.to].piece_type = Pawn
  /\ last.to.y = 7

(***************************************************************************)
(* C7.  do_move(from, to) returns true if and only if there is a piece at  *)
(* from, its colour is turn, no promotion is pending and to is among the   *)
(* legal destinations of that piece; when it returns false the Game is     *)
(* left as it was, in every field.                                         *)
(***************************************************************************)
C7_Accepted(g, from, to) ==
  /\ from \in DOMAIN g.live_pieces
  /\ g.live_pieces[from].color = g.turn
  /\ ~g.promotion
  /\ to \in legal_moves(g, g.live_pieces[from])

C7_Call(g, from, to, r) ==
  /\ r.ok <=> C7_Accepted(g, from, to)
  /\ ~r.ok => r.game = g

C7_DoMove ==
  \A m \in Attempts : C7_Call(game, m.from, m.to, do_move(game, m.from, m.to))

\* after a move: a piece of the side to move is asked to go where it cannot, a piece
\* of the other side is asked to move, and a move is accepted
C7_Witness ==
  /\ ply >= 1
  /\ \E m \in Attempts :
        /\ m.from \in DOMAIN game.live_pieces
        /\ game.live_pieces[m.from].color = game.turn
        /\ ~do_move(game, m.from, m.to).ok
  /\ \E m \in Attempts :
        /\ m.from \in DOMAIN game.live_pieces
        /\ game.live_pieces[m.from].color # game.turn
        /\ ~do_move(game, m.from, m.to).ok
  /\ \E m \in Attempts : m.from \notin DOMAIN game.live_pieces
  /\ \E m \in Attempts : do_move(game, m.from, m.to).ok

(***************************************************************************)
(* C8.  En-passant window.  As the claim has it: a pawn of the side to     *)
(* move has the diagonal step to an empty square among its legal           *)
(* destinations if and only if the last completed move was a two-square    *)
(* advance of an enemy pawn that landed beside it, over that square.       *)
(* (So the capture is there on the move that follows the advance, and is   *)
(* there neither later nor against a pawn that did not advance two         *)
(* squares.)                                                               *)
(***************************************************************************)
\* the empty squares diagonally ahead of the pawn at p
C8_Targets(pieces, p) ==
  {t \in BoardSquares :
     /\ Abs(t.x - p.x) = 1
     /\ t.y = p.y + (IF pieces[p].color = White THEN 1 ELSE -1)
     /\ t \notin DOMAIN pieces}

\* the last move took a pawn two squares ahead, to the square beside p and behind t
C8_Due(pieces, p, t) ==
  /\ last.op = "do_move"
  /\ last.to \in DOMAIN pieces
  /\ pieces[last.to].piece_type = Pawn
  /\ last.from.x = last.to.x
  /\ Abs(last.to.y - last.from.y) = 2
  /\ last.to = Sq(t.x, p.y)

\* the pieces after the pawn at p has taken en passant on t
C8_After(pieces, p, t) ==
  [s \in ((DOMAIN pieces \ {p, Sq(t.x, p.y)}) \cup {t}) |->
     IF s = t THEN [pieces[p] EXCEPT !.pos = t] ELSE pieces[s]]

C8_Pawns(g) ==
  {p \in DOMAIN g.live_pieces :
     g.live_pieces[p].piece_type = Pawn /\ g.live_pieces[p].color = g.turn}

C8_EnPassantWindow ==
  ~game.promotion =>
    \A p \in C8_Pawns(game) : \A t \in C8_Targets(game.live_pieces, p) :
       t \in legal_moves(game, game.live_pieces[p]) <=> C8_Due(game.live_pieces, p, t)

(***************************************************************************)
(* C8, amended.  The same, unless the capture would leave the king of the  *)
(* capturing side attacked: then it is not among the legal destinations.   *)
(***************************************************************************)
C8_EnPassantWindowLegal ==
  ~game.promotion =>
    \A p \in C8_Pawns(game) : \A t \in C8_Targets(game.live_pieces, p) :
       t \in legal_moves(game, game.live_pieces[p])
         <=> /\ C8_Due(game.live_pieces, p, t)
             /\ KingSafe(C8_After(game.live_pieces, p, t), game.turn)

\* a pawn may take en passant now: the advance has just been made, and do_move takes
C8_Witness ==
  /\ ~game.promotion
  /\ \E p \in C8_Pawns(game) : \E t \in C8_Targets(game.live_pieces, p) :
        /\ C8_Due(game.live_pieces, p, t)
        /\ t \in legal_moves(game, game.live_pieces[p])
        /\ do_move(game, p, t).ok

(***************************************************************************)
(* C9.  Threefold repetition: when the position a completed move leaves    *)
(* has the encoding (BoardValue: placement, castling rights, en-passant    *)
(* availability) of a position that stood on the board twice before, with  *)
(* no capture and no pawn move since, result is Draw.                      *)
(***************************************************************************)
C9_Threefold ==
  Occurred(history, BoardValue_from(game)) >= 3 => game.result = Draw

\* the third occurrence, and the move before it left the game Ongoing
C9_Witness ==
  /\ Occurred(history, BoardValue_from(game)) = 3
  /\ game.result = Draw
  /\ quiet = 8
  /\ game.fifty_move_rule < 100

(***************************************************************************)
(* C10.  Fifty-move rule: after 100 half-moves in a row without a pawn     *)
(* move or a capture result is Draw, unless the last of them gave          *)
(* checkmate; and no step with fewer than 100 such half-moves behind it    *)
(* makes the result Draw, unless for another reason (a declared draw, a    *)
(* third repetition, insufficient material, stalemate).                    *)
(***************************************************************************)
C10_NoMoves(g) ==
  \A k \in DOMAIN g.live_pieces :
     g.live_pieces[k].color = g.turn => legal_moves(g, g.live_pieces[k]) = {}

\* the side to move is checkmated
C10_Mated(g) == ~KingSafe(g.live_pieces, g.turn) /\ C10_NoMoves(g)

C10_Due == quiet >= 100 /\ ~C10_Mated(game) => game.result = Draw

C10_OtherDraw(g, h) ==
  \/ Occurred(h, BoardValue_from(g)) >= 3
  \/ /\ Cardinality(DOMAIN g.live_pieces) <= 3
     /\ \A k \in DOMAIN g.live_pieces : g.live_pieces[k].piece_type \in {King, Bishop, Knight}
  \/ C10_NoMoves(g)

C10_NotBefore ==
  game.result # Draw /\ game'.result = Draw /\ quiet' < 100
    => game'.turn = game.turn \/ C10_OtherDraw(game', history')

C10_FiftyMoves == [](C10_Due) /\ [][C10_NotBefore]_vars

\* the 100th half-move has just been made, no position has stood three times, and
\* the result is Draw
C10_Witness ==
  /\ quiet = 100
  /\ game.fifty_move_rule = 100
  /\ game.result = Draw
  /\ \A v \in DOMAIN history : history[v] < 3

(***************************************************************************)
(* C11.  Terminal detection: after every completed move (a do_move that    *)
(* leaves no promotion pending, or the pawn_promotion that follows), if no *)
(* piece of the new side to move has a legal destination, result is the    *)
(* win of the side that moved when the king of the new side to move is     *)
(* attacked, and Draw when it is not; if some piece has a legal            *)
(* destination, result is what the rules before left: Draw when one of     *)
(* them applies (half-move clock, repetition count, material), and what it *)
(* was before the move otherwise.                                          *)
(***************************************************************************)
C11_Completed ==
  /\ ~game'.promotion
  /\ ply' = ply + 1 \/ (game.promotion /\ game' # game)

C11_Win(color) == IF color = White THEN WhiteWon ELSE BlackWon

\* one of the draws that post_move looks for before the turn changes
C11_Drawn(g) ==
  \/ g.fifty_move_rule >= 100
  \/ g.previous_states[BoardValue_from(g)] >= 3
  \/ /\ Cardinality(DOMAIN g.live_pieces) <= 3
     /\ \A k \in DOMAIN g.live_pieces : g.live_pieces[k].piece_type \in {King, Bishop, Knight}

C11_Result(before, g) ==
  IF C10_NoMoves(g)
  THEN (IF KingSafe(g.live_pieces, g.turn) THEN Draw ELSE C11_Win(Not(g.turn)))
  ELSE IF C11_Drawn(g) THEN Draw ELSE before

C11_TerminalDetection ==
  [][C11_Completed => game'.result = C11_Result(game.result, game')]_vars

\* stalemate: the move is made, the side to move has a queen against it, no legal
\* destination and a king that is not attacked, and result is Draw
C11_Witness ==
  /\ last.op = "do_move"
  /\ C10_NoMoves(game)
  /\ KingSafe(game.live_pieces, game.turn)
  /\ \E k \in DOMAIN game.live_pieces : game.live_pieces[k].piece_type = Queen
  /\ game.result = Draw

(***************************************************************************)
(* C12.  Insufficient material.  As the claim has it: when a completed     *)
(* move leaves the two kings and any number of bishops and knights, and no *)
(* queen, rook or pawn, result is Draw.                                    *)
(***************************************************************************)
\* the last call completed a move
C12_MoveCompleted == last.op \in {"do_move", "pawn_promotion"} /\ ~game.promotion

\* a king of each colour, and beside them bishops and knights only
C12_KingsAndMinors(pieces) ==
  /\ \A color \in PieceColor :
        Cardinality({k \in DOMAIN pieces :
                       pieces[k].piece_type = King /\ pieces[k].color = color}) = 1
  /\ \A k \in DOMAIN pieces : pieces[k].piece_type \in {King, Bishop, Knight}

C12_AnyMinors ==
  C12_MoveCompleted /\ C12_KingsAndMinors(game.live_pieces) => game.result = Draw

(***************************************************************************)
(* C12, amended.  When a completed move leaves the two kings and at most   *)
(* one more piece, a bishop or a knight, result is Draw.                   *)
(***************************************************************************)
C12_OneMinor ==
  /\ C12_MoveCompleted
  /\ C12_KingsAndMinors(game.live_pieces)
  /\ Cardinality(DOMAIN game.live_pieces) <= 3
  => game.result = Draw

\* a king has taken the last knight: two kings and a bishop are left, and result is
\* Draw
C12_Witness ==
  /\ last.op = "do_move"
  /\ game.capture
  /\ C12_KingsAndMinors(game.live_pieces)
  /\ Cardinality(DOMAIN game.live_pieces) = 3
  /\ \E k \in DOMAIN game.live_pieces : game.live_pieces[k].piece_type = Bishop
  /\ game.result = Draw

(***************************************************************************)
(* C13.  The reference game from the standard start: E2-E4, D7-D5, E4xD5,  *)
(* C8-E6, D1-F3, B8-D7, D5xE6, A7-A5, A2-A3, A5-A4, B2-B4 succeed one      *)
(* after the other, capture is true after E4xD5 and D5xE6 and false after  *)
(* A7-A5; then A4-A3 fails, A4-B3 succeeds and takes the pawn on B4 en     *)
(* passant with capture true, and F3-F7 succeeds and leaves result         *)
(* WhiteWon.                                                               *)
(***************************************************************************)
C13_Reference(g, n) ==
  /\ n < Len(ReferenceGame)
       => do_move(g, ReferenceGame[n + 1].from, ReferenceGame[n + 1].to).ok
  /\ n \in {3, 7} => g.capture
  /\ n = 8 => ~g.capture
  /\ n = 11 => ~do_move(g, SquareFromStr("A", "4"), SquareFromStr("A", "3")).ok
  /\ n = 12 => /\ g.capture
               /\ SquareFromStr("B", "4") \notin DOMAIN g.live_pieces
               /\ SquareFromStr("B", "3") \in DOMAIN g.live_pieces
               /\ g.white_captured_pieces = <<Pawn>>
  /\ n = 13 => g.result = WhiteWon
  /\ n < 13 => g.result = Ongoing

C13_ReferenceGame == caller.name = "reference" => C13_Reference(game, ply)

\* the 13 moves are made, the queen stands on F7 and White has won
C13_Witness ==
  /\ caller.name = "reference"
  /\ ply = 13
  /\ last = [op |-> "do_move", from |-> SquareFromStr("F", "3"), to |-> SquareFromStr("F", "7")]
  /\ SquareFromStr("F", "7") \in DOMAIN game.live_pieces
  /\ game.live_pieces[SquareFromStr("F", "7")].piece_type = Queen
  /\ game.result = WhiteWon

(***************************************************************************)
(* C14.  FEN round trip: for a string f of 6 fields that says a position   *)
(* in the standard way (the en-passant field given or not, either side to  *)
(* move, any subset of the castling rights), to_fen of the Game that       *)
(* from_fen(f) returns is f.                                               *)
(***************************************************************************)
\* the Game is as from_fen returned it
C14_Parsed == last.op = "from_fen" /\ ply = 0

C14_RoundTrip ==
  C14_Parsed /\ caller.given.fields = FenFields /\ fen # "" => fen = caller.fen

(***************************************************************************)
(* C15.  FEN side to move: for a string of 1 to 6 fields, the Game that    *)
(* from_fen returns has turn White when field 2 is "w" or is not given,    *)
(* and Black when it is "b".                                               *)
(***************************************************************************)
C15_SideToMove ==
  C14_Parsed => game.turn = (IF caller.given.turn = "b" THEN Black ELSE White)

(***************************************************************************)
(* C16.  FEN board reconstruction: for a string of 1 to 6 fields, in the   *)
(* Game that from_fen returns white_bitmap and black_bitmap are the sets   *)
(* of the squares of the white and of the black pieces placed by field 1,  *)
(* and the derived state is that of one run of post_move: the check flag   *)
(* says whether the king of the side to move is attacked, a side to move   *)
(* without legal destinations has the result of the game, and the position *)
(* is in previous_states.                                                  *)
(***************************************************************************)
C16_Derived(g) ==
  /\ g.check <=> ~KingSafe(g.live_pieces, g.turn)
  /\ C10_NoMoves(g) => g.result # Ongoing
  /\ BoardValue_from(g) \in DOMAIN g.previous_states

C16_Board(g) ==
  /\ g.white_bitmap = {k \in DOMAIN g.live_pieces : g.live_pieces[k].color = White}
  /\ g.black_bitmap = {k \in DOMAIN g.live_pieces : g.live_pieces[k].color = Black}

C16_Reconstructed == C14_Parsed => C16_Board(game) /\ C16_Derived(game)

(***************************************************************************)
(* C17.  FEN en passant: after from_fen of a string of 6 fields whose      *)
(* field 4 is a square, every pawn of the side to move that stands beside  *)
(* the pawn in front of that square has the square among its legal         *)
(* destinations, and field 4 of to_fen is a square and not "-".            *)
(***************************************************************************)
\* the pawns of the side to move beside the pawn that passed over the square t
C17_Beside(g, t) ==
  {p \in C8_Pawns(g) :
     Abs(p.x - t.x) = 1 /\ p.y = t.y - (IF g.turn = White THEN 1 ELSE -1)}

C17_Target(g, t) ==
  /\ \A p \in C17_Beside(g, t) : t \in get_moves_bitmap(g, p)
  /\ split_whitespace(to_fen(g))[4] # "-"

C17_EnPassant ==
  C14_Parsed /\ caller.given.fields = FenFields /\ caller.given.passant # "-"
    => C17_Target(game, Square_from(caller.given.passant))

(***************************************************************************)
(* C18.  pawn_promotion(t) returns false and changes nothing when no       *)
(* promotion is pending or t is King or Pawn.  Otherwise it returns true:  *)
(* the piece at last_moved_to has type t, its colour and square and all    *)
(* other pieces are as before, promotion is cleared, and post_move has run *)
(* once: turn is flipped, the position with the new piece is counted once  *)
(* more in previous_states, fullmoves is one more after a move of Black,   *)
(* check says whether the king of the side to move is attacked, and result *)
(* is that of the position with the new piece.  The rest is unchanged.     *)
(***************************************************************************)
C18_Promoted(g, t, h) ==
  /\ h.live_pieces = [g.live_pieces EXCEPT ![g.last_moved_to].piece_type = t]
  /\ ~h.promotion
  /\ h.turn = Not(g.turn)
  /\ h.previous_states =
       MapInsert(g.previous_states, BoardValue_from(h),
                 (IF BoardValue_from(h) \in DOMAIN g.previous_states
                  THEN g.previous_states[BoardValue_from(h)] ELSE 0) + 1)
  /\ h.fullmoves = g.fullmoves + (IF g.turn = Black THEN 1 ELSE 0)
  /\ h.check <=> ~KingSafe(h.live_pieces, h.turn)
  /\ h.result = C11_Result(g.result, h)
  /\ h = [g EXCEPT !.live_pieces = h.live_pieces, !.promotion = h.promotion,
                   !.turn = h.turn, !.previous_states = h.previous_states,
                   !.fullmoves = h.fullmoves, !.check = h.check, !.result = h.result]

C18_Call(g, t, r) ==
  IF ~g.promotion \/ t \in {King, Pawn}
  THEN ~r.ok /\ r.game = g
  ELSE r.ok /\ C18_Promoted(g, t, r.game)

C18_PawnPromotion ==
  \A t \in PieceType : C18_Call(game, t, pawn_promotion(game, t))

\* the pawn on the last rank has become a queen that gives checkmate
C18_Witness ==
  /\ last = [op |-> "pawn_promotion", class |-> Queen]
  /\ game.live_pieces[game.last_moved_to].piece_type = Queen
  /\ ~game.promotion
  /\ game.check
  /\ game.result = WhiteWon

(***************************************************************************)
(* C19.  declare_draw and declare_win(c) take effect only while result is  *)
(* Ongoing: then result becomes Draw, or the win of c; a result that is    *)
(* not Ongoing is left as it is; and no other field of the Game changes.   *)
(***************************************************************************)
C19_Declared(g, result) ==
  [g EXCEPT !.result = IF g.result = Ongoing THEN result ELSE g.result]

C19_Declare ==
  /\ declare_draw(game) = C19_Declared(game, Draw)
  /\ \A c \in PieceColor : declare_win(game, c) = C19_Declared(game, C11_Win(c))

\* a win of Black was declared after the first move of the game: the Game is as that
\* move left it, but for result
C19_Witness ==
  /\ ply = 1
  /\ last.op = "do_move"
  /\ do_move(New, last.from, last.to).game.result = Ongoing
  /\ game = [do_move(New, last.from, last.to).game EXCEPT !.result = BlackWon]

(***************************************************************************)
(* C20.  Checkmate precedence: when a completed move meets a draw rule of  *)
(* post_move (half-move clock at least 100, third repetition, or           *)
(* insufficient material) and leaves the side to move with its king        *)
(* attacked and without a legal destination, the result of that move is    *)
(* the win of the side that moved, not Draw.                               *)
(***************************************************************************)
C20_MateAndDraw ==
  C11_Completed /\ C11_Drawn(game') /\ C10_Mated(game')
    => game'.result = C11_Win(Not(game'.turn))

C20_CheckmatePrecedence == [][C20_MateAndDraw]_vars

\* the 100th half-move without a pawn move or capture has given checkmate, and the
\* side that moved has won
C20_Witness ==
  /\ last.op = "do_move"
  /\ quiet = 100
  /\ game.fifty_move_rule = 100
  /\ C10_Mated(game)
  /\ game.result = C11_Win(Not(game.turn))

(***************************************************************************)
(* C21.  Repetition with the side to move: the repetition history counts a *)
(* position only together with the side to move, so the count of the       *)
(* position a completed move leaves is the number of times it has stood on *)
(* the board with the same side to move; and a move makes the result Draw  *)
(* by repetition only when the position has stood three times with the     *)
(* same side to move.                                                      *)
(***************************************************************************)
C21_Counted ==
  C12_MoveCompleted
    => game.previous_states[BoardValue_from(game)] = Occurred(positions, Position(game))

\* a move has made the result Draw, and neither the clock, nor the material, nor a
\* side without moves is the reason
C21_DrawnByRepetition ==
  /\ game.result = Ongoing /\ game'.result = Draw
  /\ game'.turn # game.turn
  /\ game'.fifty_move_rule < 100
  /\ ~C10_OtherDraw(game', << >>)

C21_SameSideToMove ==
  [](C21_Counted)
    /\ [][C21_DrawnByRepetition => Occurred(positions', Position(game')) >= 3]_vars

(***************************************************************************)
(* C22.  First repetition entry from FEN: in the Game that from_fen        *)
(* returns for a string of 6 fields, previous_states has exactly one       *)
(* entry, the encoding of the position of the string, with count 1; this   *)
(* also when the string says the first position of the game.               *)
(***************************************************************************)
C22_OneEntry ==
  C14_Parsed /\ caller.given.fields = FenFields
    => /\ DOMAIN game.previous_states = {BoardValue_from(game)}
       /\ game.previous_states[BoardValue_from(game)] = 1

(***************************************************************************)
(* C23.  No play after the end of the game: while result is not Ongoing    *)
(* (checkmate, stalemate, fifty-move rule, repetition, insufficient        *)
(* material, or a declared result), every do_move returns false and        *)
(* get_moves_bitmap is 0 for every square.                                 *)
(***************************************************************************)
C23_NoPlayAfterEnd ==
  game.result # Ongoing
    => /\ \A m \in Attempts : ~do_move(game, m.from, m.to).ok
       /\ \A from \in BoardSquares : get_moves_bitmap(game, from) = {}

(***************************************************************************)
(* C24.  Repetition history lifecycle: a completed move that takes a piece *)
(* (an ordinary capture, en passant, or a capture with promotion) leaves   *)
(* previous_states with exactly one entry, the encoding of the position it *)
(* leaves, with count 1; a completed move that takes nothing removes no    *)
(* entry, lowers no count, and raises exactly one count by 1 (an entry     *)
(* that was not there counts as 0 before).                                 *)
(***************************************************************************)
\* the move this step completes took a piece: the board has one piece less, or the
\* pawn that is now promoted went to the last rank diagonally
C24_Took ==
  IF game.promotion THEN last.from.x # last.to.x
  ELSE Cardinality(DOMAIN game'.live_pieces) < Cardinality(DOMAIN game.live_pieces)

C24_Cleared(after) ==
  /\ DOMAIN after = {BoardValue_from(game')}
  /\ after[BoardValue_from(game')] = 1

C24_Raised(before, after) ==
  /\ DOMAIN before \subseteq DOMAIN after
  /\ \A v \in DOMAIN after : after[v] >= Occurred(before, v)
  /\ Cardinality({v \in DOMAIN after : after[v] # Occurred(before, v)}) = 1
  /\ \E v \in DOMAIN after : after[v] = Occurred(before, v) + 1

C24_Lifecycle ==
  [][C11_Completed
       => IF C24_Took THEN C24_Cleared(game'.previous_states)
          ELSE C24_Raised(game.previous_states, game'.previous_states)]_vars

(***************************************************************************)
(* C25.  Insufficient material as post_move has it: a completed move       *)
(* leaves result Draw for insufficient material exactly when at most 3     *)
(* pieces remain in all and each of them is a King, a Bishop or a Knight.  *)
(* With 4 or more pieces, or with a Queen, a Rook or a Pawn on the board,  *)
(* a move makes the result Draw only by another rule (half-move clock,     *)
(* repetition count, no legal destination).                                *)
(***************************************************************************)
C25_Material(pieces) ==
  /\ Cardinality(DOMAIN pieces) <= 3
  /\ \A k \in DOMAIN pieces : pieces[k].piece_type \in {King, Bishop, Knight}

C25_OtherRule(g) ==
  \/ g.fifty_move_rule >= 100
  \/ g.previous_states[BoardValue_from(g)] >= 3
  \/ C10_NoMoves(g)

C25_Bookkeeping ==
  /\ C25_Material(game'.live_pieces) /\ ~C10_Mated(game') => game'.result = Draw
  /\ game.result # Draw /\ game'.result = Draw /\ ~C25_OtherRule(game')
       => C25_Material(game'.live_pieces)

\* the run of post_move that ends from_fen, on a Game whose result is Ongoing
C25_Run(g) ==
  /\ C25_Material(g.live_pieces) /\ ~C10_Mated(g) => g.result = Draw
  /\ g.result = Draw /\ ~C25_OtherRule(g) => C25_Material(g.live_pieces)

C25_Parsed == caller.given.fields = FenFields => C25_Run(from_fen(caller.fen))

C25_InsufficientMaterial == [](C25_Parsed) /\ [][C11_Completed => C25_Bookkeeping]_vars

\* a capture has left four pieces, kings, bishops and knights only, and the game goes on
C25_Witness ==
  /\ last.op = "do_move"
  /\ game.capture
  /\ Cardinality(DOMAIN game.live_pieces) = 4
  /\ C12_KingsAndMinors(game.live_pieces)
  /\ ~C25_OtherRule(game)
  /\ game.result = Ongoing

(***************************************************************************)
(* C26.  Castling mechanics: when a castling move is applied (the king     *)
(* goes two files along its rank), the king ends on file G (kingside) or   *)
(* file C (queenside), the rook that stood on file H or file A of that     *)
(* rank ends on file F or file D, the squares the king and the rook came   *)
(* from are empty, both pieces are marked moved, the occupancy mask of the *)
(* mover has both pieces on their new squares, no piece of either colour   *)
(* is removed from the board, and capture is false.                        *)
(***************************************************************************)
\* g is the Game before and h the Game after the king at from went to the side dx
C26_Applied(g, h, from, dx) ==
  LET color == g.live_pieces[from].color
      king_to == Sq(IF dx > 0 THEN 6 ELSE 2, from.y)
      rook_from == Sq(IF dx > 0 THEN 7 ELSE 0, from.y)
      rook_to == Sq(IF dx > 0 THEN 5 ELSE 3, from.y)
  IN /\ king_to \in DOMAIN h.live_pieces
     /\ h.live_pieces[king_to] = [g.live_pieces[from] EXCEPT !.pos = king_to, !.has_moved = TRUE]
     /\ rook_from \in DOMAIN g.live_pieces
     /\ g.live_pieces[rook_from].piece_type = Rook
     /\ rook_to \in DOMAIN h.live_pieces
     /\ h.live_pieces[rook_to]
          = [g.live_pieces[rook_from] EXCEPT !.pos = rook_to, !.has_moved = TRUE]
     /\ from \notin DOMAIN h.live_pieces
     /\ rook_from \notin DOMAIN h.live_pieces
     /\ own_bitmap(h, color) = (own_bitmap(g, color) \ {from, rook_from}) \cup {king_to, rook_to}
     /\ other_bitmap(h, color) = other_bitmap(g, color)
     /\ Cardinality(DOMAIN h.live_pieces) = Cardinality(DOMAIN g.live_pieces)
     /\ h.white_captured_pieces = g.white_captured_pieces
     /\ h.black_captured_pieces = g.black_captured_pieces
     /\ ~h.capture

\* this step is a do_move that took a king two files along its rank
C26_Castled ==
  /\ ply' = ply + 1
  /\ game.live_pieces[last'.from].piece_type = King
  /\ last'.from.y = last'.to.y
  /\ Abs(last'.to.x - last'.from.x) = 2

C26_CastlingMechanics ==
  [][C26_Castled => C26_Applied(game, game', last'.from, last'.to.x - last'.from.x)]_vars

(***************************************************************************)
(* C27.  Half-move clock: after every do_move that succeeds,               *)
(* fifty_move_rule is 0 if the piece moved was a pawn or the move removed  *)
(* a piece from the board (en passant included), and otherwise what it was *)
(* before plus 1; a do_move that fails, pawn_promotion, declare_draw and   *)
(* declare_win leave it as it is.                                          *)
(***************************************************************************)
\* the piece at from is a pawn, or the board has fewer pieces after the move
C27_Reset(g, from, h) ==
  \/ g.live_pieces[from].piece_type = Pawn
  \/ Cardinality(DOMAIN h.live_pieces) < Cardinality(DOMAIN g.live_pieces)

C27_Move(g, from, r) ==
  r.game.fifty_move_rule =
    (IF ~r.ok THEN g.fifty_move_rule
     ELSE IF C27_Reset(g, from, r.game) THEN 0 ELSE g.fifty_move_rule + 1)

C28_CheckFlag ==
  C12_MoveCompleted
    => (game.check <=> \E k \in DOMAIN game.live_pieces :
                          /\ game.live_pieces[k].piece_type = King
                          /\ game.live_pieces[k].color = game.turn
                          /\ Attacked(game.live_pieces, k, Not(game.turn)))

\* a move has given check and the side to move can answer it
C28_Witness ==
  /\ C12_MoveCompleted
  /\ game.check
  /\ ~KingSafe(game.live_pieces, game.turn)
  /\ ~C10_NoMoves(game)

(***************************************************************************)
(* C29.  Capture flag: after every do_move that succeeds, capture is true  *)
(* if and only if the move removed an opposing piece from the board (from  *)
(* the destination square, or en passant the pawn behind it); the type of  *)
(* the removed piece is then appended to the captured list of its own      *)
(* colour; and a move that removes nothing sets capture to false.          *)
(***************************************************************************)
\* the squares of the pieces of the other side that the move took off the board
C29_Taken(g, from, h) ==
  {k \in DOMAIN g.live_pieces :
     /\ g.live_pieces[k].color # g.live_pieces[from].color
     /\ k \notin DOMAIN h.live_pieces \/ h.live_pieces[k].color # g.live_pieces[k].color}

C29_Listed(g, h, color, types) ==
  IF color = White
  THEN /\ h.white_captured_pieces = g.white_captured_pieces \o types
       /\ h.black_captured_pieces = g.black_captured_pieces
  ELSE /\ h.black_captured_pieces = g.black_captured_pieces \o types
       /\ h.white_captured_pieces = g.white_captured_pieces

C29_Flagged(g, from, to, h) ==
  /\ h.capture <=> C29_Taken(g, from, h) # {}
  /\ C29_Taken(g, from, h) \subseteq {to, Sq(to.x, from.y)}
  /\ \A k \in C29_Taken(g, from, h) :
        /\ C29_Taken(g, from, h) = {k}
        /\ C29_Listed(g, h, g.live_pieces[k].color, <<g.live_pieces[k].piece_type>>)
  /\ C29_Taken(g, from, h) = {} => C29_Listed(g, h, White, << >>)

C29_CaptureFlag ==
  \A m \in Attempts :
     do_move(game, m.from, m.to).ok
       => C29_Flagged(game, m.from, m.to, do_move(game, m.from, m.to).game)

\* a pawn may take en passant, which sets the flag although the square it goes to is
\* empty, and another move of the same side sets the flag to false
C29_Witness ==
  /\ \E m \in Attempts :
        /\ do_move(game, m.from, m.to).ok
        /\ m.to \notin DOMAIN game.live_pieces
        /\ do_move(game, m.from, m.to).game.capture
  /\ \E m \in Attempts :
        /\ do_move(game, m.from, m.to).ok
        /\ ~do_move(game, m.from, m.to).game.capture

(***************************************************************************)
(* C30.  Promotion flag: a do_move that succeeds sets promotion to true if *)
(* and only if the piece moved is a pawn that lands on the far rank of its *)
(* colour (rank 8 for White, rank 1 for Black).  Then post_move is not run *)
(* (check, result, fullmoves, turn and the repetition history wait) until  *)
(* pawn_promotion succeeds.  And in every reachable state in which         *)
(* promotion is false no pawn stands on its far rank.                      *)
(***************************************************************************)
C30_FarRank(color) == IF color = White THEN 7 ELSE 0

\* nothing of post_move has happened between g and h
C30_Waiting(g, h) ==
  /\ h.turn = g.turn
  /\ h.fullmoves = g.fullmoves
  /\ h.check = g.check
  /\ h.result = g.result
  /\ \A v \in DOMAIN h.previous_states : Occurred(g.previous_states, v) = h.previous_states[v]

C30_Move(g, from, to, h) ==
  /\ h.promotion <=> /\ g.live_pieces[from].piece_type = Pawn
                     /\ to.y = C30_FarRank(g.live_pieces[from].color)
  /\ h.promotion => C30_Waiting(g, h)

\* while the promotion is pending: a call of pawn_promotion that fails changes nothing,
\* and one that succeeds has run post_move
C30_Pending(g, r) ==
  IF r.ok
  THEN r.game.turn = Not(g.turn) /\ BoardValue_from(r.game) \in DOMAIN r.game.previous_states
  ELSE r.game = g

C30_PromotionFlag ==
  /\ \A m \in Attempts :
        do_move(game, m.from, m.to).ok
          => C30_Move(game, m.from, m.to, do_move(game, m.from, m.to).game)
  /\ game.promotion
       => \A class \in PieceType : C30_Pending(game, pawn_promotion(game, class))
  /\ ~game.promotion
       => \A k \in DOMAIN game.live_pieces :
             game.live_pieces[k].piece_type = Pawn
               => k.y # C30_FarRank(game.live_pieces[k].color)

\* a black pawn has taken a piece on rank 1: the promotion is pending and it is still
\* the turn of Black
C30_Witness ==
  /\ game.promotion
  /\ last.op = "do_move"
  /\ last.to.y = 0
  /\ last.from.x # last.to.x
  /\ game.live_pieces[last.to].piece_type = Pawn
  /\ game.turn = Black

(***************************************************************************)
(* C31.  Full-move counter: fullmoves is 1 after Game::new(), grows by 1   *)
(* with each completed move of Black and is left as it is by each          *)
(* completed move of White (and by every other call), so that it is the    *)
(* first value plus the number of completed moves of Black; and after      *)
(* from_fen of a string of 6 fields with the full-move number n >= 1 it is *)
(* n, whichever side is to move.                                           *)
(***************************************************************************)
C31_Parsed ==
  caller.given.fields = FenFields /\ parse_u32(caller.given.fullmove) >= 1
    => from_fen(caller.fen).fullmoves = parse_u32(caller.given.fullmove)

\* the completed moves of Black among the moves made, when first moved first: the
\* sides move in turn
C31_BlackMoves(first) ==
  IF first = White
  THEN (ply - (IF game.promotion THEN 1 ELSE 0)) \div 2
  ELSE (ply - (IF game.promotion THEN 1 ELSE 0) + 1) \div 2

C31_Counted ==
  game.fullmoves
    = from_fen(caller.fen).fullmoves + C31_BlackMoves(from_fen(caller.fen).turn)

C31_Step ==
  game'.fullmoves =
    game.fullmoves + (IF C11_Completed /\ game.turn = Black THEN 1 ELSE 0)

C32_Kings(g, color) ==
  {k \in DOMAIN g.live_pieces :
     g.live_pieces[k].piece_type = King /\ g.live_pieces[k].color = color}

C32_Kept(g) ==
  /\ \A color \in PieceColor : Cardinality(C32_Kings(g, color)) = 1
  /\ \A i \in DOMAIN g.white_captured_pieces : g.white_captured_pieces[i] # King
  /\ \A i \in DOMAIN g.black_captured_pieces : g.black_captured_pieces[i] # King

C32_KingPreservation ==
  /\ C32_Kept(game)
  /\ \A from \in DOMAIN game.live_pieces :
        \A to \in get_moves_bitmap(game, from) : C32_Kept(do_move(game, from, to).game)
  /\ \A class \in PieceType : C32_Kept(pawn_promotion(game, class).game)

\* the king of the side to move is attacked, a piece has been taken before, and the
\* side to move has a move
C32_Witness ==
  /\ ~KingSafe(game.live_pieces, game.turn)
  /\ game.white_captured_pieces # << >> \/ game.black_captured_pieces # << >>
  /\ \E from \in DOMAIN game.live_pieces : get_moves_bitmap(game, from) # {}

(***************************************************************************)
(* C33.  Piece conservation: in every state of a game begun by Game::new() *)
(* the white pieces on the board and the entries of white_captured_pieces  *)
(* are 16 together, and so for Black; an accepted move takes at most one   *)
(* piece from the board, of the colour that did not move, and no call ever *)
(* shortens or rewrites a list of captured pieces.                         *)
(***************************************************************************)
C33_Pieces == 16

C33_OnBoard(g, color) ==
  Cardinality({k \in DOMAIN g.live_pieces : g.live_pieces[k].color = color})

C33_Conserved(g) ==
  /\ C33_OnBoard(g, White) + Len(g.white_captured_pieces) = C33_Pieces
  /\ C33_OnBoard(g, Black) + Len(g.black_captured_pieces) = C33_Pieces

C33_Prefix(old, new) ==
  Len(old) <= Len(new) /\ SubSeq(new, 1, Len(old)) = old

C33_Grown(g, h) ==
  /\ C33_Prefix(g.white_captured_pieces, h.white_captured_pieces)
  /\ C33_Prefix(g.black_captured_pieces, h.black_captured_pieces)

\* h is the Game after an accepted move of the side to move in g
C33_Moved(g, h) ==
  /\ C33_Conserved(h)
  /\ C33_Grown(g, h)
  /\ C33_OnBoard(h, g.turn) = C33_OnBoard(g, g.turn)
  /\ C33_OnBoard(g, Not(g.turn)) - C33_OnBoard(h, Not(g.turn)) \in {0, 1}

C33_PieceConservation ==
  /\ C33_Conserved(game)
  /\ \A from \in DOMAIN game.live_pieces :
        \A to \in get_moves_bitmap(game, from) :
           C33_Moved(game, do_move(game, from, to).game)
  /\ \A m \in Attempts :
        ~do_move(game, m.from, m.to).ok => do_move(game, m.from, m.to).game = game
  /\ \A class \in PieceType :
        /\ C33_Conserved(pawn_promotion(game, class).game)
        /\ C33_Grown(game, pawn_promotion(game, class).game)
  /\ C33_Grown(game, declare_draw(game))
  /\ \A color \in PieceColor : C33_Grown(game, declare_win(game, color))

\* pieces of both colours have been taken, and the side to move can take another
C33_Witness ==
  /\ game.white_captured_pieces # << >>
  /\ game.black_captured_pieces # << >>
  /\ \E from \in DOMAIN game.live_pieces :
        \E to \in get_moves_bitmap(game, from) :
           C33_OnBoard(do_move(game, from, to).game, Not(game.turn))
             < C33_OnBoard(game, Not(game.turn))

(***************************************************************************)
(* C34.  Castling rights are never regained: no call sets a has_moved flag *)
(* back to false; once a side's king has left its square of origin, no     *)
(* castling destination is ever again among that side's legal moves; and   *)
(* once the rook of a corner has left it or been taken there, castling to  *)
(* that side is never again legal for that colour, also when another rook  *)
(* comes to stand on the corner.                                           *)
(***************************************************************************)
C34_Unmoved(g) == {k \in DOMAIN g.live_pieces : ~g.live_pieces[k].has_moved}

\* a piece that is unmoved after a step was the same unmoved piece before it
C34_FlagKept ==
  \A k \in C34_Unmoved(game') :
     k \in C34_Unmoved(game) /\ game'.live_pieces[k] = game.live_pieces[k]

C34_Home(color) == IF color = White THEN 0 ELSE 7

\* the square of the rook on the side dx of the board
C34_Corner(color, dx) == Sq(IF dx < 0 THEN 0 ELSE 7, C34_Home(color))

C34_KingAway(color) == Sq(4, C34_Home(color)) \notin C32_Kings(game, color)

C34_RookAway(color, dx) ==
  \/ C34_Corner(color, dx) \notin DOMAIN game.live_pieces
  \/ game.live_pieces[C34_Corner(color, dx)].piece_type # Rook
  \/ game.live_pieces[C34_Corner(color, dx)].color # color

\* a king's legal move of two files to the side dx is castling
C34_Castles(color, dx) ==
  \E k \in C32_Kings(game, color) :
     moved(k, 2 * dx, 0) \in legal_moves(game, game.live_pieces[k])

C34_NeverRegained ==
  /\ [][C34_FlagKept]_vars
  /\ \A color \in PieceColor :
        [](C34_KingAway(color) => [](~C34_Castles(color, -1) /\ ~C34_Castles(color, 1)))
  /\ \A color \in PieceColor : \A dx \in {-1, 1} :
        [](C34_RookAway(color, dx) => [](~C34_Castles(color, dx)))

\* the king has not moved and is not attacked, F1 and G1 are empty, the rook of H1
\* stands on G4 and the rook of A1 on H1: White is to move and may not castle
C34_Witness ==
  /\ game.turn = White
  /\ Sq(4, 0) \in C34_Unmoved(game)
  /\ KingSafe(game.live_pieces, White)
  /\ DOMAIN game.live_pieces \cap {Sq(0, 0), Sq(5, 0), Sq(6, 0)} = {}
  /\ ~C34_RookAway(White, 1)
  /\ Sq(6, 3) \in DOMAIN game.live_pieces
  /\ game.live_pieces[Sq(6, 3)].piece_type = Rook
  /\ ~do_move(game, Sq(4, 0), Sq(6, 0)).ok

(***************************************************************************)
(* C35.  Legal destinations are well-formed: in every position that can be *)
(* reached, no legal destination of a piece of the side to move is off the *)
(* board, the piece's own square, a square that holds a piece of the same  *)
(* colour, or the square of the opposing king.                             *)
(***************************************************************************)
C35_WellFormed(pieces, from, to) ==
  /\ to \in BoardSquares
  /\ to # from
  /\ to \in DOMAIN pieces
       => pieces[to].color # pieces[from].color /\ pieces[to].piece_type # King

C35_LegalDestinations ==
  \A from \in DOMAIN game.live_pieces :
     \A to \in get_moves_bitmap(game, from) : C35_WellFormed(game.live_pieces, from, to)

(***************************************************************************)
(* C36.  Pawn advances: the pseudo-legal destinations of a pawn hold the   *)
(* square one step forward only if it is empty, the square two steps       *)
(* forward only if the pawn is unmoved and both squares before it are      *)
(* empty, a diagonal-forward square only if an opposing piece stands on it *)
(* or it is the en-passant square, and nothing else; so a pawn never goes  *)
(* straight forward onto an occupied square.                               *)
(***************************************************************************)
C36_Forward(pieces, from, n) == Sq(from.x, from.y + n * get_direction(pieces[from]))

\* the square passed over by the pawn that the last call moved two steps
C36_PassedOver ==
  IF /\ last.op = "do_move"
     /\ last.to \in DOMAIN game.live_pieces
     /\ game.live_pieces[last.to].piece_type = Pawn
     /\ last.from.x = last.to.x
     /\ Abs(last.to.y - last.from.y) = 2
  THEN {Sq(last.to.x, (last.from.y + last.to.y) \div 2)}
  ELSE {}

C36_Step(pieces, from, to) ==
  /\ to = C36_Forward(pieces, from, 1)
  /\ to \notin DOMAIN pieces

C36_TwoSteps(pieces, from, to) ==
  /\ to = C36_Forward(pieces, from, 2)
  /\ ~pieces[from].has_moved
  /\ C36_Forward(pieces, from, 1) \notin DOMAIN pieces
  /\ to \notin DOMAIN pieces

C36_Diagonal(pieces, from, to) ==
  /\ Abs(to.x - from.x) = 1
  /\ to.y = C36_Forward(pieces, from, 1).y
  /\ \/ to \in DOMAIN pieces /\ pieces[to].color # pieces[from].color
     \/ to \in C36_PassedOver /\ game.live_pieces[last.to].color # pieces[from].color

C36_PawnAdvances ==
  \A from \in DOMAIN game.live_pieces :
     game.live_pieces[from].piece_type = Pawn =>
       \A to \in psuedo_legal_moves_pawn(game, game.live_pieces[from],
                                         own_bitmap(game, game.live_pieces[from].color),
                                         other_bitmap(game, game.live_pieces[from].color)) :
          /\ to \in BoardSquares
          /\ \/ C36_Step(game.live_pieces, from, to)
             \/ C36_TwoSteps(game.live_pieces, from, to)
             \/ C36_Diagonal(game.live_pieces, from, to)

(***************************************************************************)
(* C37.  Ray stepping: for every start square on the board, every          *)
(* direction and every pair of masks, bitmap_line returns, and what it     *)
(* returns is exactly the squares reached by stepping from the start, the  *)
(* start not among them, up to but without the first step that leaves the  *)
(* board or lands on a square of the own mask, and up to and with the      *)
(* first square of the other mask.                                         *)
(***************************************************************************)
C37_At(n) == Sq(caller.start.x + n * caller.dx, caller.start.y + n * caller.dy)

\* the n-th step stays on the board and off the own mask
C37_Free(n) == C37_At(n) \in BoardSquares /\ C37_At(n) \notin caller.own_color_bitmap

\* a line on the board has no more than 7 squares after its start
C37_Ray ==
  {C37_At(n) : n \in {m \in 1..7 : /\ \A i \in 1..m : C37_Free(i)
                                   /\ \A i \in 1..(m - 1) :
                                         C37_At(i) \notin caller.other_color_bitmap}}

C37_Returned ==
  last.op = "return"
    => /\ last.moves = C37_Ray
       /\ bitmap_line(caller.start, caller.dx, caller.dy, caller.own_color_bitmap,
                      caller.other_color_bitmap) = C37_Ray

C37_RayStepping == [](C37_Returned) /\ <>(last.op = "return")

\* the loop went over an empty square and returned on a square of the other mask, and
\* a square of the own mask lies further on the same line
C37_Witness ==
  /\ last.op = "return"
  /\ ply >= 2
  /\ last.square \in caller.other_color_bitmap
  /\ last.square \in last.moves
  /\ moved(last.square, caller.dx, caller.dy) \in caller.own_color_bitmap

====
